---- MODULE Spec2Model ----
(***************************************************************************)
(* A model of the storage and execution engine of GO-REDIS:                *)
(*   - the striped shard locks of the concurrent map (dict/concurrent.go), *)
(*   - the database command pipeline and the WATCH/MULTI/EXEC engine       *)
(*     (database/database.go, database/hash.go, database/tx_utils.go,      *)
(*     the key commands of pubhub/pubhub.go),                              *)
(*   - the append-only log and its rewrite (aof/rdb.go, aof/rewrite.go).   *)
(* Three specifications share the module: Spec (connections running        *)
(* commands and transactions), LockSpec (tasks locking arbitrary batches   *)
(* of keys) and AofSpec (writers, the log writer task and a rewrite).      *)
(***************************************************************************)
EXTENDS Integers, Sequences, FiniteSets, TLC

VARIABLES
    \* ---- shard locks of DB.data (sync.RWMutex per shard) ----
    wOwner,     \* shard -> task that took the writer side (pending or holding), or NoTask
    wActive,    \* shard -> TRUE when that writer holds the lock (readers drained)
    rHeld,      \* shard -> task -> number of read locks the task holds
    \* ---- the database ----
    data,       \* db.data: key -> hash, for the keys present
    ttlMap,     \* db.ttlMap: key -> expiry time, for the keys with a TTL
    versionMap, \* db.versionMap: key -> version, for the keys ever written
    \* ---- the connection of each task (redis.Connection) ----
    multi,      \* task -> InMultiState()
    queue,      \* task -> queued command lines
    watching,   \* task -> watched key -> version snapshot
    txErrors,   \* task -> errors recorded while enqueueing
    \* ---- the call each task is in ----
    pc,         \* task -> position: "idle", "addver", "locking", "locked", "run",
                \*         "txcheck", "txrun", "txver", "txundo"
    cur,        \* task -> the command line being served, <<>> when none
    held,       \* task -> [w |-> writeKeys, r |-> readKeys] of its RWLocks call
    plan,       \* task -> shard indices still to acquire, in acquisition order
    vkeys,      \* task -> keys addVersion has still to bump
    vread,      \* task -> version addVersion has read and not yet written back, or NoRead
    results,    \* task -> replies of the queued commands ExecMulti has executed
    undoCmdLines, \* task -> undo logs ExecMulti has captured, one list per command
    rollback,   \* task -> undo command lines the rollback loop has still to run
    reply,      \* task -> the last reply the client received
    sent,       \* task -> number of calls the task has made
    \* ---- history ----
    txSnap,     \* task -> the database when its ExecMulti passed the watch check
    touched,    \* task -> watched keys written by others since they were watched
    execEnd,    \* task -> how its last EXEC ended: "none", "errors", "conflict",
                \*         "panic", "rolledback", "done"
    \* ---- the persister (aof.Persister) and its rewrite ----
    aofFile,    \* the command lines of the append-only file, oldest first
    aofChan,    \* persister.aofChan: command lines sent and not yet written
    rewritePc,  \* position of Rewrite: "idle", "started", "generating",
                \*         "generated", "finished"
    ctx,        \* RewriteCtx: [fileSize, dbIdx, tmpFile]
    cursor,     \* number of keys the ForEach of generateAof has visited
    written,    \* number of write commands executed
    windowWrites, \* history: writes executed, or appended to the file, between
                \*         StartRewrite and FinishRewrite
    effects,    \* history: the logged command lines in the order in which the
                \*         commands took effect in memory
    \* ---- the server's own commands and the persister's tasks ----
    flushPc,    \* position of execFlushDB: "idle", "saved"
    pausingAof, \* persister.pausingAof: the task holding the mutex, or "none"
    listener,   \* the task running listenCmd: [pc, p], pc one of "range",
                \*         "lock", "write", "send", "exit", p the payload it took
    closePc,    \* position of Persister.Close: "idle", "locked", "waiting",
                \*         "received", "done"
    rewriteErr, \* history: the step of Rewrite whose file operation failed,
                \*         or "none"
    \* ---- a database read through GetEntity while time passes ----
    clock,      \* time.Now()
    got,        \* the last call of GetEntity: [key, expired, ok, entity]
    \* ---- a ConcurrentDict used under the key locks of the database ----
    dict,       \* [m, count]: the keys and values of all shards, and dict.count
    removing,   \* task -> the key its Remove found in the shard and has not
                \*         deleted yet, or <<>>
    \* ---- a skiplist of package sortedset ----
    sl,         \* the skiplist: [level, length, tail, node], node mapping the
                \*         header (0) and each node's number to its fields
    slHist,     \* history: [stored, ops], the elements inserted and not
                \*         removed, and the number of calls made
    \* ---- a SortedSet of package sortedset, its skiplist being sl ----
    sset,       \* [dict]: sortedSet.dict, member -> Score of its Element
    \* ---- an entity serialized by EntityToCmd ----
    remade,     \* [key, entity, cmd, db]: the entity, the command made from
                \*         it, and an empty database after executing it
    \* ---- a server started on the append-only file ----
    loaded,     \* [done, db, panic, live]: the database LoadAof built from
                \*         the file, whether LoadAof panicked, and the
                \*         database of the server that wrote the file
    \* ---- a ConcurrentDict iterated with DictScan ----
    scan,       \* [table, count, passed, cursor, calls, out]: the keys of
                \*         each shard, the count of the iteration, the cursor
                \*         passed to the last call and the one it returned,
                \*         the calls made and the keys returned so far
    \* ---- connections of a server with requirepass set ----
    conns,      \* [password, n, c, cmdLine, reply]: task -> the password
                \*         of its connection, the number of Server.Exec
                \*         calls, and the last call's task, line and reply
    \* ---- a connection served by Handler.Handle ----
    client,     \* [open, n, errs, afterErr, wrote]: whether the handler
                \*         still serves it, the lines read, the protocol
                \*         errors reported, the commands executed after
                \*         the first of them, and the last reply written
    \* ---- the range commands of a sorted set ----
    ranged,     \* [cmdLine, reply, db]: the last range command, the reply
                \*         it got and the database it was executed on
    \* ---- the publish / subscribe hub (pubhub.Hub) ----
    hub,        \* [subs, table, chans, op, n]: channel -> its subscriber
                \*         list, stripe -> the task holding its mutex,
                \*         task -> the channels of its connection, task ->
                \*         the call it is in, and the calls made. A call is
                \*         [name, topics, want, locked, phase, seen]: the
                \*         topics it has still to serve, the mutexes it has
                \*         still to lock and those it holds, its phase
                \*         ("lock", "run", "in" while it is inside the list
                \*         of Head(topics)) and the list as it found it
    \* ---- a server with several databases and its persister ----
    mlog,       \* [fsync, file, currentDB, chan, conn, live, rw, writes,
                \*         starts, rewrites]: the fsync policy ("down" while
                \*         no server runs), the entries of the log file and
                \*         of aofChan (a command line with the index of the
                \*         database it was executed on), persister.currentDB,
                \*         task -> the database its connection selected,
                \*         index -> database, rewrite -> its position and
                \*         RewriteCtx, and counters
    \* ---- one connection sending key commands, with their outcome ----
    lastCmd,    \* [n, cmdLine, reply, before, after, aof, panic, log]: the
                \*         calls made, and of the last one the command line,
                \*         its reply, the state before and after it, the
                \*         command lines it gave to the log and whether it
                \*         panicked; log -> all the lines given to the log
    wheel       \* [sched, owner, conn, task, n, lastRun]: the time wheel, the
                \* key locks and the expiration task of DB.Expire

lockVars == <<wOwner, wActive, rHeld>>
dbVars == <<data, ttlMap>>
connVars == <<multi, queue, watching, txErrors>>
lockCallVars == <<held, plan>>
verVars == <<vkeys, vread>>
txVars == <<results, undoCmdLines, rollback>>
histVars == <<txSnap, touched, execEnd>>
taskVars == <<pausingAof, listener, closePc>>
evictVars == <<clock, got>>
dictVars == <<dict, removing>>
skipVars == <<sl, slHist>>
zsetVars == <<sset>>
marshalVars == <<remade>>
loadVars == <<loaded>>
scanVars == <<scan>>
authVars == <<conns>>
handleVars == <<client>>
rangeVars == <<ranged>>
hubVars == <<hub>>
selectVars == <<mlog>>
lastVars == <<lastCmd>>
wheelVars == <<wheel>>
tailVars == <<selectVars, lastVars, wheelVars>>
lateVars == <<rangeVars, hubVars, tailVars>>
moreVars ==
    <<zsetVars, marshalVars, loadVars, scanVars, authVars, handleVars, lateVars>>
libVars == <<evictVars, dictVars, skipVars, moreVars>>
persistVars == <<flushPc, taskVars, rewriteErr, libVars>>
aofVars ==
    <<aofFile, aofChan, rewritePc, ctx, cursor, written, windowWrites, effects, persistVars>>
vars == <<wOwner, wActive, rHeld, data, ttlMap, versionMap, multi, queue, watching,
          txErrors, pc, cur, held, plan, vkeys, vread, results, undoCmdLines, rollback,
          reply, sent, txSnap, touched, execEnd, aofFile, aofChan, rewritePc, ctx,
          cursor, written, windowWrites, effects, flushPc, pausingAof, listener, closePc,
          rewriteErr, clock, got, dict, removing, sl, slHist, sset, remade, loaded,
          scan, conns, client, ranged, hub, mlog, lastCmd, wheel>>

-----------------------------------------------------------------------------
(* Bounds of the model *)

\* rounds of RWLocks/RWUnLocks each task of LockSpec performs
MaxRounds == 2
\* commands the transaction connection of Spec sends
MaxCmds == 4
\* commands the plain connection of Spec sends
MaxPlainCmds == 2
\* commands a connection of Spec queues in one transaction
MaxQueue == 2
\* total number of keys (write keys plus read keys) in one batch of LockSpec
MaxBatchLen == 2
MaxWrites == 3

-----------------------------------------------------------------------------
(* Keys and hashing: dict/concurrent.go *)

\* The keys of the model with their bytes. "a" and "sf8" hash to the same
\* shard of a 65536-shard table, "b" to the shard just below it.
KeyBytes == [a |-> <<97>>, b |-> <<98>>, sf8 |-> <<115, 102, 56>>]

AllKeys == DOMAIN KeyBytes

NoTask == "none"
Tasks == {"t1", "t2"}

\* const dataDictSize = 1 << 16
dataDictSize == 65536

\* 32-bit words are pairs <<high 16 bits, low 16 bits>>
Limb == 65536

RECURSIVE Xor16(_, _)
Xor16(x, y) ==
    IF x = 0 THEN y
    ELSE IF y = 0 THEN x
    ELSE ((x + y) % 2) + 2 * Xor16(x \div 2, y \div 2)

RECURSIVE And16(_, _)
And16(x, y) ==
    IF x = 0 \/ y = 0 THEN 0
    ELSE ((x % 2) * (y % 2)) + 2 * And16(x \div 2, y \div 2)

\* prime32 = 16777619 = 0x0100 0193
prime32Hi == 256
prime32Lo == 403
\* FNV offset basis 2166136261 = 0x811C 9DC5
offsetHi == 33052
offsetLo == 40389

\* hash *= prime32 (mod 2^32), then hash ^= byte
fnvStep(h, byte) ==
    LET prodLo == h[2] * prime32Lo
        lo == prodLo % Limb
        hi == (h[1] * prime32Lo + h[2] * prime32Hi + (prodLo \div Limb)) % Limb
    IN  <<hi, Xor16(lo, byte)>>

RECURSIVE fnvFold(_, _)
fnvFold(h, bytes) ==
    IF bytes = <<>> THEN h ELSE fnvFold(fnvStep(h, Head(bytes)), Tail(bytes))

fnv32(key) == fnvFold(<<offsetHi, offsetLo>>, KeyBytes[key])

RECURSIVE NextPow2(_, _)
NextPow2(p, n) == IF p >= n THEN p ELSE NextPow2(2 * p, n)

computeCapacity(param) == IF param <= 16 THEN 16 ELSE NextPow2(1, param)

\* len(dict.table) of the database's data dictionary
tableSize == computeCapacity(dataDictSize)

\* (tableSize - 1) & hashCode
spreadOf(key) ==
    LET mask == tableSize - 1
        h == fnv32(key)
    IN  IF tableSize = 1 THEN 0
        ELSE And16(h[1], mask \div Limb) * Limb + And16(h[2], mask % Limb)

SpreadTable == [k \in AllKeys |-> spreadOf(k)]

spread(key) == SpreadTable[key]

\* the shards the keys of the model reach; no other shard is ever touched
UsedShards == {spread(k) : k \in AllKeys}

-----------------------------------------------------------------------------
(* Lock manager: toLockIndices / RWLocks / RWUnLocks *)

SeqToSet(s) == {s[i] : i \in 1..Len(s)}

RECURSIVE SortAsc(_)
SortAsc(S) ==
    IF S = {} THEN <<>>
    ELSE LET m == CHOOSE x \in S : \A y \in S : x <= y
         IN  <<m>> \o SortAsc(S \ {m})

Reverse(s) == [i \in 1..Len(s) |-> s[Len(s) + 1 - i]]

RECURSIVE FirstOccurrences(_, _)
FirstOccurrences(s, seen) ==
    IF s = <<>> THEN <<>>
    ELSE IF Head(s) \in seen THEN FirstOccurrences(Tail(s), seen)
    ELSE <<Head(s)>> \o FirstOccurrences(Tail(s), seen \cup {Head(s)})

\* a lock manager that forgets to sort: shards in the order the keys name them
toLockIndicesUnsorted(keys, reverse) ==
    LET idx == FirstOccurrences([i \in 1..Len(keys) |-> spread(keys[i])], {})
    IN  IF reverse THEN Reverse(idx) ELSE idx

\* the distinct shard indices of keys, ascending (descending when reverse)
toLockIndices(keys, reverse) ==
    LET asc == SortAsc({spread(keys[i]) : i \in 1..Len(keys)})
    IN  IF reverse THEN Reverse(asc) ELSE asc

\* an RWLocks that takes no key for a write key
writeIndexSetNone(writeKeys) == {}

writeIndexSet(writeKeys) == {spread(writeKeys[i]) : i \in 1..Len(writeKeys)}

\* the acquisition plan of RWLocks(writeKeys, readKeys)
LockPlan(writeKeys, readKeys) == toLockIndices(writeKeys \o readKeys, FALSE)

NoReaders(s) == \A t \in Tasks : rHeld[s][t] = 0

\* mu.Lock(), first half: take the writer side; from now on new readers block
CanLockAnnounce(t, s) == wOwner[s] = NoTask

LockAnnounce(t, s) ==
    /\ CanLockAnnounce(t, s)
    /\ wOwner' = [wOwner EXCEPT ![s] = t]
    /\ UNCHANGED <<wActive, rHeld>>

\* mu.Lock(), second half: the active readers have left
CanLockEnter(t, s) ==
    /\ wOwner[s] = t
    /\ ~wActive[s]
    /\ NoReaders(s)

LockEnter(t, s) ==
    /\ CanLockEnter(t, s)
    /\ wActive' = [wActive EXCEPT ![s] = TRUE]
    /\ UNCHANGED <<wOwner, rHeld>>

\* mu.RLock(): blocks while a writer holds or waits for the lock
CanRLockEnter(t, s) == wOwner[s] = NoTask

RLockEnter(t, s) ==
    /\ CanRLockEnter(t, s)
    /\ rHeld' = [rHeld EXCEPT ![s][t] = @ + 1]
    /\ UNCHANGED <<wOwner, wActive>>

\* the lock state after RWUnLocks(writeKeys, readKeys): mu.Unlock() or
\* mu.RUnlock() on every shard of the batch, in descending order
RECURSIVE UnlockFold(_, _, _, _)
UnlockFold(t, indices, wset, st) ==
    IF indices = <<>> THEN st
    ELSE LET s == Head(indices)
             nxt == IF s \in wset
                    THEN [st EXCEPT !.o[s] = NoTask, !.a[s] = FALSE]
                    ELSE [st EXCEPT !.r[s][t] = @ - 1]
         IN  UnlockFold(t, Tail(indices), wset, nxt)

\* an RWUnLocks that releases nothing
RWUnLocksKept(t, writeKeys, readKeys) == [o |-> wOwner, a |-> wActive, r |-> rHeld]

RWUnLocksState(t, writeKeys, readKeys) ==
    UnlockFold(t, toLockIndices(writeKeys \o readKeys, TRUE),
               writeIndexSet(writeKeys),
               [o |-> wOwner, a |-> wActive, r |-> rHeld])

RWUnLocks(t, writeKeys, readKeys) ==
    LET st == RWUnLocksState(t, writeKeys, readKeys)
    IN  /\ wOwner' = st.o
        /\ wActive' = st.a
        /\ rHeld' = st.r

LockInit ==
    /\ wOwner = [s \in UsedShards |-> NoTask]
    /\ wActive = [s \in UsedShards |-> FALSE]
    /\ rHeld = [s \in UsedShards |-> [t \in Tasks |-> 0]]

-----------------------------------------------------------------------------
(* Command lines, replies and the command table: database/router.go *)

\* A command line is a sequence of strings, its name first. A reply is a
\* sequence of strings, its kind first.
IntStr(n) == CASE n = 0 -> "0" [] n = 1 -> "1" [] n = 2 -> "2" [] OTHER -> "n"

MakeIntReply(n) == <<"int", IntStr(n)>>
MakeOkReply == <<"status", "OK">>
MakeQueuedReply == <<"status", "QUEUED">>
MakeErrReply(msg) == <<"err", msg>>
MakeArgNumErrReply(name) == <<"err", "ERR wrong number of arguments", name>>
MakeBulkReply(v) == <<"bulk", v>>
MakeNullBulkReply == <<"nullbulk">>
UnknownErrReply == <<"err", "Err unknown">>
ExecAbortReply == MakeErrReply("EXECABORT Transaction discarded because of previous errors.")

IsErrorReply(r) == r[1] = "err"

\* what the client receives: one reply, the array of replies of a successful
\* EXEC, or the empty array of an EXEC that lost its watch
Single(r) == [kind |-> "single", items |-> <<r>>]
MakeMultiRawReply(rs) == [kind |-> "multi", items |-> rs]
MakeEmptyMultiBulkReply == [kind |-> "emptymultibulk", items |-> <<>>]
NoReply == [kind |-> "none", items |-> <<>>]

\* strings.ToLower on the command names the model uses
ToLower(s) ==
    CASE s = "DEL" -> "del"
      [] s = "FlushDB" -> "flushdb"
      [] s = "HSET" -> "hset"
      [] s = "HDEL" -> "hdel"
      [] s = "HMSET" -> "hmset"
      [] s = "PERSIST" -> "persist"
      [] s = "PEXPIREAT" -> "pexpireat"
      [] s = "SELECT" -> "select"
      [] s = "ZADD" -> "zadd"
      [] s = "ZREM" -> "zrem"
      [] OTHER -> s

\* the registrations of the commands the model uses; a later registration of
\* a name replaces an earlier one (HGet ends with arity -3)
cmdTable ==
    [hset    |-> [executor |-> "execHSet",    prepare |-> "writeFirstKey", undo |-> "undoHSet",   arity |-> 4],
     hget    |-> [executor |-> "execHGet",    prepare |-> "readFirstKey",  undo |-> "nil",        arity |-> -3],
     hexists |-> [executor |-> "execHExists", prepare |-> "readFirstKey",  undo |-> "nil",        arity |-> 3],
     hdel    |-> [executor |-> "execHDel",    prepare |-> "writeFirstKey", undo |-> "undoHDel",   arity |-> -3],
     del     |-> [executor |-> "execDel",     prepare |-> "writeAllKeys",  undo |-> "undoDel",    arity |-> -2],
     expire  |-> [executor |-> "execExpire",  prepare |-> "writeFirstKey", undo |-> "undoExpire", arity |-> 3],
     persist |-> [executor |-> "execPersist", prepare |-> "writeFirstKey", undo |-> "undoExpire", arity |-> 2],
     rename  |-> [executor |-> "execRename",  prepare |-> "prepareRename", undo |-> "undoRename", arity |-> 3],
     zadd    |-> [executor |-> "execZAdd",    prepare |-> "writeFirstKey", undo |-> "undoZAdd",   arity |-> -4],
     hmset   |-> [executor |-> "execHMSet",   prepare |-> "writeFirstKey", undo |-> "undoHMSet",  arity |-> -4],
     zrange  |-> [executor |-> "execZRange",  prepare |-> "readFirstKey",  undo |-> "nil",        arity |-> -4],
     zrevrange |-> [executor |-> "execZRevRange", prepare |-> "readFirstKey", undo |-> "nil",     arity |-> -4],
     hsetnx  |-> [executor |-> "execHSetNX",  prepare |-> "writeFirstKey", undo |-> "undoHSet",   arity |-> 4],
     zincrby |-> [executor |-> "execZInrc",   prepare |-> "writeFirstKey", undo |-> "undoZIncr",  arity |-> 4]]

validateArity(arity, cmdArgs) ==
    IF arity >= 0 THEN Len(cmdArgs) = arity ELSE Len(cmdArgs) >= -arity

readFirstKey(args) == [w |-> <<>>, r |-> <<args[1]>>]
writeFirstKey(args) == [w |-> <<args[1]>>, r |-> <<>>]
writeAllKeys(args) == [w |-> args, r |-> <<>>]
prepareRename(args) == [w |-> <<args[2]>>, r |-> <<args[1]>>]

\* cmd.prepare(args)
prepare(cmd, args) ==
    CASE cmd.prepare = "readFirstKey" -> readFirstKey(args)
      [] cmd.prepare = "writeFirstKey" -> writeFirstKey(args)
      [] cmd.prepare = "writeAllKeys" -> writeAllKeys(args)
      [] cmd.prepare = "prepareRename" -> prepareRename(args)

-----------------------------------------------------------------------------
(* Database state and the executors: database/database.go, database/hash.go, *)
(* pubhub/pubhub.go (key commands)                                           *)

\* the keys and hash fields the connections of Spec name
DbKeys == {"a", "b"}
Fields == {"f"}

\* The clock of the model stands still: no TTL set in the model expires.
Now == 0

MapPut(m, k, v) == [x \in (DOMAIN m) \cup {k} |-> IF x = k THEN v ELSE m[x]]
MapRemove(m, k) == [x \in (DOMAIN m) \ {k} |-> m[x]]
EmptyMap == [x \in {} |-> 0]

\* strconv.ParseInt on the arguments the model uses
IsInt(s) == s \in {"1", "2", "10", "0", "3", "-1", "-2", "-3"}
ParseInt(s) ==
    CASE s = "1" -> 1 [] s = "2" -> 2 [] s = "10" -> 10 [] s = "0" -> 0 [] s = "3" -> 3
      [] s = "-1" -> -1 [] s = "-2" -> -2 [] s = "-3" -> -3

\* strconv.FormatInt of a time in milliseconds
FormatMillis(t) == CASE t = 1 -> "1000" [] t = 2 -> "2000" [] t = 10 -> "10000" [] OTHER -> "ms"

\* A database is [data, ttl]: db.data maps the keys present to their entity,
\* db.ttlMap maps keys to expiry times. A hash is a map from the fields
\* present to their values; a sorted set is the record of SortedSet: dict
\* maps the members to their score, skiplist holds the <<score, member>> nodes.
IsExpired(db, key) == key \in DOMAIN db.ttl /\ Now > db.ttl[key]

\* GetEntity: ok
HasEntity(db, key) == key \in DOMAIN db.data /\ ~IsExpired(db, key)

\* db.Remove(key)
Remove(db, key) == [data |-> MapRemove(db.data, key), ttl |-> MapRemove(db.ttl, key)]

\* the result of an executor: the database it leaves, its reply, and whether
\* it panicked (the reply is then produced by the recover of Server.Exec)
\* aof lists the command lines the executor handed to db.addAof
Outcome(db, r) == [db |-> db, reply |-> r, panic |-> FALSE, aof |-> <<>>]
Panic(db) == [db |-> db, reply |-> UnknownErrReply, panic |-> TRUE, aof |-> <<>>]

\* db.addAof(line) at the end of an executor
addAof(out, line) == [out EXCEPT !.aof = Append(@, line)]

execHSet(db, args) ==
    LET key == args[1]
        d == IF HasEntity(db, key) THEN db.data[key] ELSE EmptyMap
        result == IF args[2] \in DOMAIN d THEN 0 ELSE 1
    IN  addAof(Outcome([db EXCEPT !.data = MapPut(db.data, key, MapPut(d, args[2], args[3]))],
                       MakeIntReply(result)),
               <<"hset">> \o args)

\* getAsDict returns a nil dict for an absent key and d.Get dereferences it
execHGet(db, args) ==
    IF ~HasEntity(db, args[1]) THEN Panic(db)
    ELSE IF args[2] \in DOMAIN db.data[args[1]]
         THEN Outcome(db, MakeBulkReply(db.data[args[1]][args[2]]))
         ELSE Outcome(db, MakeNullBulkReply)

execHExists(db, args) ==
    IF HasEntity(db, args[1]) /\ args[2] \in DOMAIN db.data[args[1]]
    THEN Outcome(db, MakeIntReply(1))
    ELSE Outcome(db, MakeIntReply(0))

execHDel(db, args) ==
    LET key == args[1]
        fields == {args[i] : i \in 2..Len(args)}
    IN  IF ~HasEntity(db, key) THEN Panic(db)
        ELSE LET d == db.data[key]
                 left == [x \in (DOMAIN d) \ fields |-> d[x]]
                 deleted == Cardinality((DOMAIN d) \cap fields)
                 out == Outcome(IF DOMAIN left = {} THEN Remove(db, key)
                                ELSE [db EXCEPT !.data = MapPut(db.data, key, left)],
                                MakeIntReply(deleted))
             IN  IF deleted > 0 THEN addAof(out, <<"hdel">> \o args) ELSE out

\* db.Removes(keys...): the effect once GetWithLock has got the shard's read lock
RECURSIVE Removes(_, _)
Removes(db, keys) ==
    IF keys = <<>> THEN [db |-> db, deleted |-> 0]
    ELSE LET rest == Removes(IF Head(keys) \in DOMAIN db.data THEN Remove(db, Head(keys)) ELSE db,
                             Tail(keys))
         IN  [db |-> rest.db,
              deleted |-> rest.deleted + (IF Head(keys) \in DOMAIN db.data THEN 1 ELSE 0)]

execDel(db, args) ==
    LET res == Removes(db, args)
        out == Outcome(res.db, MakeIntReply(res.deleted))
    IN  IF res.deleted > 0 THEN addAof(out, <<"del">> \o args) ELSE out

execExpire(db, args) ==
    IF ~IsInt(args[2]) THEN Outcome(db, MakeErrReply("ERR value is not an integer or out of range"))
    ELSE IF ~HasEntity(db, args[1]) THEN Outcome(db, MakeIntReply(0))
    ELSE addAof(Outcome([db EXCEPT !.ttl = MapPut(db.ttl, args[1], Now + ParseInt(args[2]))],
                        MakeIntReply(1)),
                <<"PEXPIREAT", args[1], FormatMillis(Now + ParseInt(args[2]))>>)

execPersist(db, args) ==
    IF ~HasEntity(db, args[1]) THEN Outcome(db, MakeIntReply(0))
    ELSE addAof(Outcome([db EXCEPT !.ttl = MapRemove(db.ttl, args[1])], MakeIntReply(1)),
                <<"persist">> \o args)

execRename(db, args) ==
    IF Len(args) # 2 THEN Outcome(db, MakeErrReply("ERR wrong number of arguments for 'rename' command"))
    ELSE LET src == args[1]
             dest == args[2]
         IN  IF ~HasEntity(db, src) THEN Outcome(db, MakeErrReply("no such key"))
             ELSE LET hasTTL == src \in DOMAIN db.ttl
                      put == [db EXCEPT !.data = MapPut(db.data, dest, db.data[src])]
                      removed == Remove(put, src)
                      moved == IF hasTTL
                               THEN [removed EXCEPT !.ttl =
                                        MapPut(MapRemove(MapRemove(removed.ttl, src), dest),
                                               dest, db.ttl[src])]
                               ELSE removed
                  IN  addAof(Outcome(moved, MakeOkReply), <<"rename">> \o args)

\* entity.Data.(*SortedSet.SortedSet): a hash of the model never has these
\* two names as its fields
IsSortedSet(entity) == DOMAIN entity = {"dict", "skiplist"}

\* SortedSet.Make()
MakeSortedSet == [dict |-> EmptyMap, skiplist |-> {}]

\* sortedSet.Add(member, score), whether the member is new, and whether Add
\* panicked. skiplist is the set of elements ForEachByRank reads, from tail
\* along the backward pointers. A new member is inserted with the height
\* skiplist.insert completes with (1). A member whose score changes is
\* removed first, and skiplist.remove of a stored node panics in removeNode
\* before tail, the backward pointers and length are touched: the dict holds
\* the new score and the skiplist reads as before.
SortedSetAdd(zset, member, score) ==
    IF member \in DOMAIN zset.dict
    THEN [zset |-> [dict |-> MapPut(zset.dict, member, score),
                    skiplist |-> zset.skiplist],
          added |-> FALSE,
          panic |-> score # zset.dict[member]]
    ELSE [zset |-> [dict |-> MapPut(zset.dict, member, score),
                    skiplist |-> zset.skiplist \cup {<<score, member>>}],
          added |-> TRUE,
          panic |-> FALSE]

\* the loop of execZAdd over the elements, i being its counter of new
\* members; a panic of Add ends it
RECURSIVE AddElements(_, _, _)
AddElements(zset, pairs, i) ==
    IF pairs = <<>> THEN [zset |-> zset, i |-> i, panic |-> FALSE]
    ELSE LET res == SortedSetAdd(zset, pairs[2], ParseInt(pairs[1]))
         IN  IF res.panic THEN [zset |-> res.zset, i |-> i, panic |-> TRUE]
             ELSE AddElements(res.zset, Tail(Tail(pairs)), IF res.added THEN i + 1 ELSE i)

\* strconv.ParseFloat on the scores of the model, which are whole numbers
execZAdd(db, args) ==
    IF Len(args) % 2 # 1
    THEN Outcome(db, MakeErrReply("ERR wrong number of arguments for ZADD command"))
    ELSE IF \E i \in 1..((Len(args) - 1) \div 2) : ~IsInt(args[2 * i])
    THEN Outcome(db, MakeErrReply("ERR value is not a valid float"))
    ELSE IF HasEntity(db, args[1]) /\ ~IsSortedSet(db.data[args[1]])
    THEN Outcome(db, MakeErrReply("WRONGTYPE"))
    ELSE LET key == args[1]
             sortedSet == IF HasEntity(db, key) THEN db.data[key] ELSE MakeSortedSet
             res == AddElements(sortedSet, Tail(args), 0)
             put == [db EXCEPT !.data = MapPut(db.data, key, res.zset)]
         IN  IF res.panic THEN Panic(put)
             ELSE addAof(Outcome(put, MakeIntReply(res.i)), <<"zadd">> \o args)

\* execHSetNX: d.PutIfAbsent(field, value), and the line handed to the log
\* whether or not the field was put
execHSetNX(db, args) ==
    IF HasEntity(db, args[1]) /\ IsSortedSet(db.data[args[1]])
    THEN Outcome(db, MakeErrReply("WRONGTYPE"))
    ELSE LET key == args[1]
             d == IF HasEntity(db, key) THEN db.data[key] ELSE EmptyMap
             result == IF args[2] \in DOMAIN d THEN 0 ELSE 1
             put == IF result = 1 THEN MapPut(d, args[2], args[3]) ELSE d
         IN  addAof(Outcome([db EXCEPT !.data = MapPut(db.data, key, put)],
                            MakeIntReply(result)),
                    <<"hset">> \o args)

\* the loop of execHMSet over the fields: dict.Put of each pair
RECURSIVE PutPairs(_, _)
PutPairs(d, pairs) ==
    IF pairs = <<>> THEN d
    ELSE PutPairs(MapPut(d, pairs[1], pairs[2]), Tail(Tail(pairs)))

execHMSet(db, args) ==
    IF Len(args) % 2 # 1
    THEN Outcome(db, MakeErrReply("ERR syntax error"))
    ELSE IF HasEntity(db, args[1]) /\ IsSortedSet(db.data[args[1]])
    THEN Outcome(db, MakeErrReply("WRONGTYPE"))
    ELSE LET key == args[1]
             d == IF HasEntity(db, key) THEN db.data[key] ELSE EmptyMap
         IN  addAof(Outcome([db EXCEPT !.data = MapPut(db.data, key, PutPairs(d, Tail(args)))],
                            MakeOkReply),
                    <<"hmset">> \o args)

\* protocol.MakeMultiBulkReply(args) and &protocol.EmptyMultiBulkReply{}
MakeMultiBulkReply(args) == <<"multibulk">> \o args
EmptyMultiBulkReply == <<"emptymultibulk">>

\* ForEachByRank(0, Len, desc = true): the nodes of the skiplist from the
\* tail backwards, highest score first (no two nodes of the sorted sets of
\* the model tie on the score)
RECURSIVE ByRankDesc(_)
ByRankDesc(nodes) ==
    IF nodes = {} THEN <<>>
    ELSE LET top == CHOOSE x \in nodes : \A y \in nodes : y[1] <= x[1]
         IN  <<top>> \o ByRankDesc(nodes \ {top})

\* strconv.FormatFloat(score, 'f', -1, 64) of a whole number
FormatFloat(score) == IntStr(score)

\* execZInrc as an executor of the command table: getOrInitSortedSet puts
\* an empty sorted set under an absent key before the member is looked up;
\* element.Score += delta writes through the pointer the dict holds, and Add
\* then finds the score unchanged and leaves the skiplist alone
execZInrcOn(db, args) ==
    IF ~IsInt(args[2]) THEN Outcome(db, MakeErrReply("ERR value is not a valid float"))
    ELSE IF HasEntity(db, args[1]) /\ ~IsSortedSet(db.data[args[1]])
    THEN Outcome(db, MakeErrReply("WRONGTYPE"))
    ELSE LET key == args[1]
             field == args[3]
             put == IF HasEntity(db, key) THEN db
                    ELSE [db EXCEPT !.data = MapPut(db.data, key, MakeSortedSet)]
             sortedSet == put.data[key]
         IN  IF field \notin DOMAIN sortedSet.dict
             THEN Outcome(put, MakeErrReply("ERR field doesn't exist"))
             ELSE LET score == sortedSet.dict[field] + ParseInt(args[2])
                      bumped == [sortedSet EXCEPT !.dict = MapPut(@, field, score)]
                  IN  addAof(Outcome([put EXCEPT !.data = MapPut(put.data, key, bumped)],
                                     MakeBulkReply(FormatFloat(score))),
                             <<"zincrby">> \o args)

\* sortedSet.RangeByRank(start, stop, desc): ForEachByRank starts at the node
\* of rank start, counted from the tail when desc, and walks stop - start
\* nodes; it panics when start or stop lies outside 0..size
RangeByRank(zset, start, stop, desc) ==
    LET size == Cardinality(DOMAIN zset.dict)
        order == IF desc THEN ByRankDesc(zset.skiplist)
                 ELSE Reverse(ByRankDesc(zset.skiplist))
    IN  IF start < 0 \/ start > size \/ stop < 0 \/ stop > size
        THEN [panic |-> TRUE, slice |-> <<>>]
        ELSE [panic |-> FALSE, slice |-> SubSeq(order, start + 1, stop)]

\* the result array of range0: each member, followed by its score when
\* withScores
RECURSIVE RangeResult(_, _)
RangeResult(slice, withScores) ==
    IF slice = <<>> THEN <<>>
    ELSE (IF withScores THEN <<Head(slice)[2], FormatFloat(Head(slice)[1])>>
          ELSE <<Head(slice)[2]>>) \o RangeResult(Tail(slice), withScores)

range0(db, key, start, stop, withScores, desc) ==
    IF HasEntity(db, key) /\ ~IsSortedSet(db.data[key])
    THEN Outcome(db, MakeErrReply("WRONGTYPE"))
    ELSE IF ~HasEntity(db, key) THEN Outcome(db, EmptyMultiBulkReply)
    ELSE LET zset == db.data[key]
             size == Cardinality(DOMAIN zset.dict)
             from == IF start < -1 * size THEN 0
                     ELSE IF start < 0 THEN size + start
                     ELSE start
             upto == IF stop < -1 * size THEN 0
                     ELSE IF stop < 0 THEN size + stop + 1
                     ELSE IF stop < size THEN stop + 1
                     ELSE size
             last == IF upto < from THEN from ELSE upto
             res == RangeByRank(zset, from, last, desc)
         IN  IF start >= size THEN Outcome(db, EmptyMultiBulkReply)
             ELSE IF res.panic THEN Panic(db)
             ELSE Outcome(db, MakeMultiBulkReply(RangeResult(res.slice, withScores)))

\* the body of execZRange and of execZRevRange after the test of len(args)
rangeArgs(db, args, desc) ==
    IF Len(args) = 4 /\ args[4] # "WITHSCORES"
    THEN Outcome(db, MakeErrReply("syntax error"))
    ELSE IF ~IsInt(args[2]) \/ ~IsInt(args[3])
    THEN Outcome(db, MakeErrReply("ERR value is not an integer or out of range"))
    ELSE range0(db, args[1], ParseInt(args[2]), ParseInt(args[3]), Len(args) = 4, desc)

\* len(args) != 3 || len(args) != 4 holds for every len(args)
execZRange(db, args) ==
    IF Len(args) # 3 \/ Len(args) # 4
    THEN Outcome(db, MakeErrReply("ERR wrong number of arguments for ZRANGE command"))
    ELSE rangeArgs(db, args, FALSE)

execZRevRange(db, args) ==
    IF Len(args) # 3 \/ Len(args) # 4
    THEN Outcome(db, MakeErrReply("ERR wrong number of arguments for ZRANGE command"))
    ELSE rangeArgs(db, args, TRUE)

\* cmd.executor(db, args)
executor(cmd, db, args) ==
    CASE cmd.executor = "execHSet" -> execHSet(db, args)
      [] cmd.executor = "execHGet" -> execHGet(db, args)
      [] cmd.executor = "execHExists" -> execHExists(db, args)
      [] cmd.executor = "execHDel" -> execHDel(db, args)
      [] cmd.executor = "execDel" -> execDel(db, args)
      [] cmd.executor = "execExpire" -> execExpire(db, args)
      [] cmd.executor = "execPersist" -> execPersist(db, args)
      [] cmd.executor = "execRename" -> execRename(db, args)
      [] cmd.executor = "execZAdd" -> execZAdd(db, args)
      [] cmd.executor = "execHMSet" -> execHMSet(db, args)
      [] cmd.executor = "execZRange" -> execZRange(db, args)
      [] cmd.executor = "execZRevRange" -> execZRevRange(db, args)
      [] cmd.executor = "execHSetNX" -> execHSetNX(db, args)
      [] cmd.executor = "execZInrc" -> execZInrcOn(db, args)

\* db.execWithLock(cmdLine): the caller holds the locks
execWithLock(db, cmdLine) ==
    LET cmdName == ToLower(cmdLine[1])
    IN  IF cmdName \notin DOMAIN cmdTable
        THEN Outcome(db, MakeErrReply("ERR unknown command"))
        ELSE IF ~validateArity(cmdTable[cmdName].arity, cmdLine)
        THEN Outcome(db, MakeErrReply(cmdName))
        ELSE executor(cmdTable[cmdName], db, Tail(cmdLine))

\* The shards whose read lock the executor of cmdLine takes itself while it
\* runs: execDel calls db.Removes, which reads each key with GetWithLock.
GetWithLockShards(cmdLine) ==
    LET cmdName == ToLower(cmdLine[1])
    IN  IF /\ cmdName \in DOMAIN cmdTable
           /\ validateArity(cmdTable[cmdName].arity, cmdLine)
           /\ cmdTable[cmdName].executor = "execDel"
        THEN {spread(cmdLine[i]) : i \in 2..Len(cmdLine)}
        ELSE {}

-----------------------------------------------------------------------------
(* Undo logs: database/tx_utils.go, aof/marshal.go *)

SetToSeq(S) ==
    LET RECURSIVE Walk(_)
        Walk(T) == IF T = {} THEN <<>>
                   ELSE LET x == CHOOSE y \in T : TRUE IN <<x>> \o Walk(T \ {x})
    IN  Walk(S)

\* args[at] = v on a 0-based array held as a sequence
SetAt(args, at, v) == [args EXCEPT ![at + 1] = v]

\* hashToCmd: the array starts as [HMSET, key, nil...] and the i-th pair
\* visited is stored at 2*i and 2*i+1
hashToCmd(key, hash) ==
    LET n == Cardinality(DOMAIN hash)
        blank == <<"HMSET", key>> \o [j \in 1..(2 * n) |-> ""]
        order == SetToSeq(DOMAIN hash)
        RECURSIVE Fill(_, _)
        Fill(args, i) ==
            IF i = n THEN args
            ELSE Fill(SetAt(SetAt(args, 2 * i, order[i + 1]), 2 * i + 1, hash[order[i + 1]]),
                      i + 1)
    IN  Fill(blank, 0)

RECURSIVE ScoreMemberArgs(_)
ScoreMemberArgs(elements) ==
    IF elements = <<>> THEN <<>>
    ELSE <<FormatFloat(Head(elements)[1]), Head(elements)[2]>> \o ScoreMemberArgs(Tail(elements))

zSetToCmd(key, zSet) == <<"ZADD", key>> \o ScoreMemberArgs(ByRankDesc(zSet.skiplist))

\* EntityToCmd: the type switch over the entity types of the model
EntityToCmd(key, entity) ==
    IF IsSortedSet(entity) THEN zSetToCmd(key, entity) ELSE hashToCmd(key, entity)

MakeExpireCmd(key, expireAt) == <<"PEXPIREAT", key, FormatMillis(expireAt)>>

toTTLCmd(db, key) ==
    IF key \notin DOMAIN db.ttl THEN <<"PERSIST", key>>
    ELSE <<"PEXPIREAT", key, FormatMillis(db.ttl[key])>>

RECURSIVE rollbackGivenKeys(_, _)
rollbackGivenKeys(db, keys) ==
    IF keys = <<>> THEN <<>>
    ELSE LET key == Head(keys)
             one == IF ~HasEntity(db, key) THEN << <<"DEL", key>> >>
                    ELSE << <<"DEL", key>>, EntityToCmd(key, db.data[key]), toTTLCmd(db, key) >>
         IN  one \o rollbackGivenKeys(db, Tail(keys))

rollbackFirstKey(db, args) == rollbackGivenKeys(db, <<args[1]>>)

rollbackHashFields(db, key, fields) ==
    IF ~HasEntity(db, key) THEN << <<"DEL", key>> >>
    ELSE [i \in 1..Len(fields) |->
            IF fields[i] \in DOMAIN db.data[key]
            THEN <<"HSET", key, fields[i], db.data[key][fields[i]]>>
            ELSE <<"HDEL", key, fields[i]>>]

rollbackZSetFields(db, key, fields) ==
    IF ~HasEntity(db, key) THEN << <<"DEL", key>> >>
    ELSE IF ~IsSortedSet(db.data[key]) THEN <<>>
    ELSE [i \in 1..Len(fields) |->
            IF fields[i] \in DOMAIN db.data[key].dict
            THEN <<"ZADD", key, FormatFloat(db.data[key].dict[fields[i]]), fields[i]>>
            ELSE <<"ZREM", key, fields[i]>>]

undoZAdd(db, args) ==
    rollbackZSetFields(db, args[1], [i \in 1..((Len(args) - 1) \div 2) |-> args[2 * i + 1]])

undoHSet(db, args) == rollbackHashFields(db, args[1], <<args[2]>>)
undoHDel(db, args) == rollbackHashFields(db, args[1], Tail(args))
undoDel(db, args) == rollbackGivenKeys(db, args)
undoExpire(db, args) == << toTTLCmd(db, args[1]) >>
undoRename(db, args) == rollbackGivenKeys(db, <<args[1], args[2]>>)

\* db.GetUndoLogs(cmdLine)
GetUndoLogs(db, cmdLine) ==
    LET cmdName == ToLower(cmdLine[1])
        undo == IF cmdName \in DOMAIN cmdTable THEN cmdTable[cmdName].undo ELSE "nil"
        args == Tail(cmdLine)
    IN  CASE undo = "nil" -> <<>>
          [] undo = "undoHSet" -> undoHSet(db, args)
          [] undo = "undoHDel" -> undoHDel(db, args)
          [] undo = "undoDel" -> undoDel(db, args)
          [] undo = "undoExpire" -> undoExpire(db, args)
          [] undo = "undoRename" -> undoRename(db, args)
          [] undo = "undoZAdd" -> undoZAdd(db, args)

\* the undo lists of ExecMulti in the order the rollback loop runs them:
\* the lists last to first, the command lines of one list first to last
RECURSIVE RollbackOrder(_)
RollbackOrder(lists) ==
    IF lists = <<>> THEN <<>>
    ELSE lists[Len(lists)] \o RollbackOrder(SubSeq(lists, 1, Len(lists) - 1))

-----------------------------------------------------------------------------
(* Initial state: a fresh database (makeBasicDB), fresh connections *)

NoBatch == [w |-> <<>>, r |-> <<>>]
NoRead == -1
NoSnap == [data |-> EmptyMap, ttl |-> EmptyMap]
NoCtx == [fileSize |-> 0, dbIdx |-> 0, tmpFile |-> <<>>]

DbInit ==
    /\ data = EmptyMap
    /\ ttlMap = EmptyMap
    /\ versionMap = EmptyMap

ConnInit ==
    /\ multi = [c \in Tasks |-> FALSE]
    /\ queue = [c \in Tasks |-> <<>>]
    /\ watching = [c \in Tasks |-> EmptyMap]
    /\ txErrors = [c \in Tasks |-> <<>>]

CallInit ==
    /\ pc = [c \in Tasks |-> "idle"]
    /\ cur = [c \in Tasks |-> <<>>]
    /\ held = [c \in Tasks |-> NoBatch]
    /\ plan = [c \in Tasks |-> <<>>]
    /\ vkeys = [c \in Tasks |-> <<>>]
    /\ vread = [c \in Tasks |-> NoRead]
    /\ results = [c \in Tasks |-> <<>>]
    /\ undoCmdLines = [c \in Tasks |-> <<>>]
    /\ rollback = [c \in Tasks |-> <<>>]
    /\ reply = [c \in Tasks |-> NoReply]
    /\ sent = [c \in Tasks |-> 0]
    /\ txSnap = [c \in Tasks |-> NoSnap]
    /\ touched = [c \in Tasks |-> {}]
    /\ execEnd = [c \in Tasks |-> "none"]

-----------------------------------------------------------------------------
(* RWLocks, one shard at a time: dict/concurrent.go *)

HeadIsWrite(t) == Head(plan[t]) \in writeIndexSet(held[t].w)

\* where the caller of RWLocks goes on once every shard is locked: a bare
\* task of LockSpec, ExecMulti, or execNormalCommand
PcAfterLocks(cmdLine) ==
    IF cmdLine = <<>> THEN "locked"
    ELSE IF cmdLine[1] = "exec" THEN "txcheck"
    ELSE "run"

\* the call RWLocks(batch.w, batch.r) made for cmdLine: the plan is drawn up;
\* with nothing to lock RWLocks returns at once
RWLocksCall(t, cmdLine, batch) ==
    /\ held' = [held EXCEPT ![t] = batch]
    /\ plan' = [plan EXCEPT ![t] = LockPlan(batch.w, batch.r)]
    /\ pc' = [pc EXCEPT ![t] = IF LockPlan(batch.w, batch.r) = <<>>
                               THEN PcAfterLocks(cmdLine) ELSE "locking"]

\* one shard of the plan is locked; after the last one RWLocks returns
RWLocksAdvance(t) ==
    /\ plan' = [plan EXCEPT ![t] = Tail(@)]
    /\ pc' = [pc EXCEPT ![t] = IF Tail(plan[t]) = <<>> THEN PcAfterLocks(cur[t]) ELSE "locking"]

\* what the steps of RWLocks leave alone
RWLocksFrame ==
    UNCHANGED <<dbVars, versionMap, connVars, cur, held, verVars, txVars, reply, sent,
                histVars, aofVars>>

\* mu.Lock() on the next shard of the plan: the writer side is taken
RWLocksAnnounce(t) ==
    /\ pc[t] = "locking"
    /\ HeadIsWrite(t)
    /\ LockAnnounce(t, Head(plan[t]))
    /\ UNCHANGED <<pc, plan>>
    /\ RWLocksFrame

\* mu.Lock() returns once the readers have left
RWLocksLock(t) ==
    /\ pc[t] = "locking"
    /\ HeadIsWrite(t)
    /\ LockEnter(t, Head(plan[t]))
    /\ RWLocksAdvance(t)
    /\ RWLocksFrame

\* mu.RLock() on the next shard of the plan
RWLocksRLock(t) ==
    /\ pc[t] = "locking"
    /\ ~HeadIsWrite(t)
    /\ RLockEnter(t, Head(plan[t]))
    /\ RWLocksAdvance(t)
    /\ RWLocksFrame

RWLocksStep(t) ==
    \/ RWLocksAnnounce(t)
    \/ RWLocksLock(t)
    \/ RWLocksRLock(t)

-----------------------------------------------------------------------------
(* Versions: database/database.go *)

GetVersion(key) == IF key \in DOMAIN versionMap THEN versionMap[key] ELSE 0

\* addVersion, first half for one key: version := db.GetVersion(key)
addVersionGet(t) ==
    /\ pc[t] \in {"addver", "txver"}
    /\ vkeys[t] # <<>>
    /\ vread[t] = NoRead
    /\ vread' = [vread EXCEPT ![t] = GetVersion(Head(vkeys[t]))]
    /\ UNCHANGED <<lockVars, dbVars, versionMap, connVars, pc, cur, lockCallVars, vkeys,
                   txVars, reply, sent, histVars>>
    /\ UNCHANGED aofVars

\* addVersion, second half: db.versionMap.Put(key, version+1). No lock is
\* held on the version map between the two halves. After the last key,
\* execNormalCommand calls db.RWLocks(write, read).
addVersionPut(t) ==
    /\ pc[t] \in {"addver", "txver"}
    /\ vkeys[t] # <<>>
    /\ vread[t] # NoRead
    /\ versionMap' = MapPut(versionMap, Head(vkeys[t]), vread[t] + 1)
    /\ vkeys' = [vkeys EXCEPT ![t] = Tail(@)]
    /\ vread' = [vread EXCEPT ![t] = NoRead]
    /\ IF pc[t] = "addver" /\ Tail(vkeys[t]) = <<>>
       THEN RWLocksCall(t, cur[t], held[t])
       ELSE UNCHANGED <<pc, lockCallVars>>
    /\ UNCHANGED <<lockVars, dbVars, connVars, cur, txVars, reply, sent, histVars>>
    /\ UNCHANGED aofVars

-----------------------------------------------------------------------------
(* The connection: redis.Connection is outside the repository's sources; it  *)
(* carries the multi-state flag, the queued command list, the watched-keys   *)
(* map and the accumulated queue errors.                                     *)

\* conn.SetMultiState(true)
SetMultiStateTrue(c) ==
    /\ multi' = [multi EXCEPT ![c] = TRUE]
    /\ UNCHANGED <<queue, watching, txErrors>>

\* conn.SetMultiState(false): back to Normal with the transaction data reset
SetMultiStateFalse(c) ==
    /\ multi' = [multi EXCEPT ![c] = FALSE]
    /\ queue' = [queue EXCEPT ![c] = <<>>]
    /\ watching' = [watching EXCEPT ![c] = EmptyMap]
    /\ txErrors' = [txErrors EXCEPT ![c] = <<>>]

\* conn.AddTxError(err)
AddTxError(c, err) ==
    /\ txErrors' = [txErrors EXCEPT ![c] = Append(@, err)]
    /\ UNCHANGED <<multi, queue, watching>>

\* conn.EnqueueCmd(cmdLine)
ConnEnqueueCmd(c, cmdLine) ==
    /\ queue' = [queue EXCEPT ![c] = Append(@, cmdLine)]
    /\ UNCHANGED <<multi, watching, txErrors>>

-----------------------------------------------------------------------------
(* DB.Exec and the transaction commands: database/database.go, hash.go *)

\* what the first connection sends: transactions over a and b
TxMenu ==
    {<<"multi">>, <<"exec">>, <<"discard">>, <<"watch", "a">>,
     <<"hset", "a", "f", "2">>, <<"hget", "b", "f">>,
     <<"expire", "a", "10">>, <<"expire", "a", "x">>,
     <<"del", "a">>, <<"rename", "a", "b">>,
     <<"hset", "a", "f">>, <<"foo">>}

\* what the second connection sends: plain commands on a
PlainMenu == {<<"hset", "a", "f", "1">>, <<"hexists", "a", "f">>}

Menu(c) == IF c = "t1" THEN TxMenu ELSE PlainMenu

Budget(c) == IF c = "t1" THEN MaxCmds ELSE MaxPlainCmds

MetaNames == {"multi", "discard", "exec", "watch"}

\* the client's command arrives on an idle connection
Receive(c, cmdLine) ==
    /\ pc[c] = "idle"
    /\ sent[c] < Budget(c)
    /\ cmdLine \in Menu(c)
    /\ sent' = [sent EXCEPT ![c] = @ + 1]

Replied(c, r) == reply' = [reply EXCEPT ![c] = r]

\* a call answered at once leaves the database, the locks and the call state alone
AnsweredFrame ==
    UNCHANGED <<lockVars, dbVars, versionMap, pc, cur, lockCallVars, verVars, txVars,
                txSnap, execEnd, aofVars>>

\* a StartMulti that accepts a nested MULTI
StartMultiNested(c) ==
    /\ Receive(c, <<"multi">>)
    /\ SetMultiStateTrue(c)
    /\ Replied(c, Single(MakeOkReply))
    /\ UNCHANGED touched
    /\ AnsweredFrame

StartMulti(c) ==
    /\ Receive(c, <<"multi">>)
    /\ IF multi[c]
       THEN /\ Replied(c, Single(MakeErrReply("ERR MULTI calls can not be nested")))
            /\ UNCHANGED connVars
       ELSE /\ SetMultiStateTrue(c)
            /\ Replied(c, Single(MakeOkReply))
    /\ UNCHANGED touched
    /\ AnsweredFrame

\* conn.ClearQueuedCmds() then conn.SetMultiState(false)
DiscardMulti(c) ==
    /\ Receive(c, <<"discard">>)
    /\ IF ~multi[c]
       THEN /\ Replied(c, Single(MakeErrReply("ERR DISCARD without MULTI")))
            /\ UNCHANGED <<connVars, touched>>
       ELSE /\ SetMultiStateFalse(c)
            /\ touched' = [touched EXCEPT ![c] = {}]
            /\ Replied(c, Single(MakeOkReply))
    /\ AnsweredFrame

RECURSIVE WatchFold(_, _)
WatchFold(w, args) ==
    IF args = <<>> THEN w
    ELSE WatchFold(MapPut(w, Head(args), GetVersion(Head(args))), Tail(args))

\* Watch(db, conn, args): snapshots the version of every argument
Watch(c, cmdLine) ==
    /\ cmdLine[1] = "watch"
    /\ Receive(c, cmdLine)
    /\ validateArity(-2, cmdLine)
    /\ watching' = [watching EXCEPT ![c] = WatchFold(@, Tail(cmdLine))]
    /\ touched' = [touched EXCEPT ![c] = @ \ SeqToSet(Tail(cmdLine))]
    /\ Replied(c, Single(MakeOkReply))
    /\ UNCHANGED <<multi, queue, txErrors>>
    /\ AnsweredFrame

\* EnqueueCmd(conn, cmdLine). No command of the table has a nil prepare.
EnqueueCmd(c, cmdLine) ==
    /\ cmdLine[1] \notin MetaNames
    /\ multi[c]
    /\ Receive(c, cmdLine)
    /\ LET cmdName == ToLower(cmdLine[1])
       IN  IF cmdName \notin DOMAIN cmdTable
           THEN /\ AddTxError(c, MakeErrReply("ERR unknown command"))
                /\ Replied(c, Single(MakeErrReply("ERR unknown command")))
           ELSE IF ~validateArity(cmdTable[cmdName].arity, cmdLine)
           THEN /\ AddTxError(c, MakeArgNumErrReply(cmdName))
                /\ Replied(c, Single(MakeArgNumErrReply(cmdName)))
           ELSE /\ Len(queue[c]) < MaxQueue
                /\ ConnEnqueueCmd(c, cmdLine)
                /\ Replied(c, Single(MakeQueuedReply))
    /\ UNCHANGED touched
    /\ AnsweredFrame

\* execNormalCommand up to the call of addVersion (of RWLocks when the
\* command writes no key)
execNormalCommand(c, cmdLine) ==
    /\ cmdLine[1] \notin MetaNames
    /\ ~multi[c]
    /\ Receive(c, cmdLine)
    /\ LET cmdName == ToLower(cmdLine[1])
       IN  IF cmdName \notin DOMAIN cmdTable
           THEN /\ Replied(c, Single(MakeErrReply("ERR unknown command")))
                /\ UNCHANGED <<pc, cur, lockCallVars, vkeys>>
           ELSE IF ~validateArity(cmdTable[cmdName].arity, cmdLine)
           THEN /\ Replied(c, Single(MakeArgNumErrReply(cmdName)))
                /\ UNCHANGED <<pc, cur, lockCallVars, vkeys>>
           ELSE LET keys == prepare(cmdTable[cmdName], Tail(cmdLine))
                IN  /\ cur' = [cur EXCEPT ![c] = cmdLine]
                    /\ vkeys' = [vkeys EXCEPT ![c] = keys.w]
                    /\ IF keys.w = <<>>
                       THEN RWLocksCall(c, cmdLine, keys)
                       ELSE /\ held' = [held EXCEPT ![c] = keys]
                            /\ pc' = [pc EXCEPT ![c] = "addver"]
                            /\ UNCHANGED plan
                    /\ UNCHANGED reply
    /\ UNCHANGED <<lockVars, dbVars, versionMap, connVars, vread, txVars, histVars>>
    /\ UNCHANGED aofVars

DbOf == [data |-> data, ttl |-> ttlMap]

\* a connection that is past the RWLocks of its ExecMulti
InExecLocked(u) == pc[u] \in {"txcheck", "txrun", "txundo", "txver"}

\* history: a write to keys took effect; the other connections that watch
\* one of them and have not yet locked for their EXEC are marked
MarkTouched(c, keys) ==
    touched' = [u \in Tasks |->
                    IF u # c /\ ~InExecLocked(u)
                    THEN touched[u] \cup (SeqToSet(keys) \cap DOMAIN watching[u])
                    ELSE touched[u]]

\* the executor blocks in GetWithLock while a writer owns the shard
GetWithLockReady(c, cmdLine) ==
    \A s \in GetWithLockShards(cmdLine) : CanRLockEnter(c, s)

\* execNormalCommand, the executor and the deferred RWUnLocks; a panic of
\* the executor is recovered by Server.Exec after the deferred call ran
execNormalRun(c) ==
    /\ pc[c] = "run"
    /\ GetWithLockReady(c, cur[c])
    /\ LET out == executor(cmdTable[ToLower(cur[c][1])], DbOf, Tail(cur[c]))
       IN  /\ data' = out.db.data
           /\ ttlMap' = out.db.ttl
           /\ Replied(c, Single(out.reply))
           /\ IF out.panic \/ IsErrorReply(out.reply)
              THEN UNCHANGED touched
              ELSE MarkTouched(c, held[c].w)
    /\ RWUnLocks(c, held[c].w, held[c].r)
    /\ pc' = [pc EXCEPT ![c] = "idle"]
    /\ cur' = [cur EXCEPT ![c] = <<>>]
    /\ held' = [held EXCEPT ![c] = NoBatch]
    /\ UNCHANGED <<versionMap, connVars, plan, verVars, txVars, sent, txSnap, execEnd>>
    /\ UNCHANGED aofVars

-----------------------------------------------------------------------------
(* EXEC: execMulti (database/database.go) and DB.ExecMulti (database/hash.go) *)

\* the write keys and read keys of the queued commands, in queue order
RECURSIVE CollectKeys(_)
CollectKeys(cmdLines) ==
    IF cmdLines = <<>> THEN NoBatch
    ELSE LET one == prepare(cmdTable[ToLower(Head(cmdLines)[1])], Tail(Head(cmdLines)))
             rest == CollectKeys(Tail(cmdLines))
         IN  [w |-> one.w \o rest.w, r |-> one.r \o rest.r]

\* the batch ExecMulti locks: the watched keys are appended to the read keys
ExecMultiKeys(c) ==
    LET ks == CollectKeys(queue[c])
    IN  [w |-> ks.w, r |-> ks.r \o SetToSeq(DOMAIN watching[c])]

isWatchingChanged(c) ==
    \E key \in DOMAIN watching[c] : watching[c][key] # GetVersion(key)

\* the deferred calls of ExecMulti and execMulti (RWUnLocks, then
\* SetMultiState(false)) and the reply of EXEC; how records the way out
ExecMultiExit(c, r, how) ==
    /\ RWUnLocks(c, held[c].w, held[c].r)
    /\ SetMultiStateFalse(c)
    /\ Replied(c, r)
    /\ pc' = [pc EXCEPT ![c] = "idle"]
    /\ cur' = [cur EXCEPT ![c] = <<>>]
    /\ held' = [held EXCEPT ![c] = NoBatch]
    /\ results' = [results EXCEPT ![c] = <<>>]
    /\ undoCmdLines' = [undoCmdLines EXCEPT ![c] = <<>>]
    /\ rollback' = [rollback EXCEPT ![c] = <<>>]
    /\ txSnap' = [txSnap EXCEPT ![c] = NoSnap]
    /\ touched' = [touched EXCEPT ![c] = {}]
    /\ execEnd' = [execEnd EXCEPT ![c] = how]
    /\ UNCHANGED <<plan, verVars, sent>>

\* an execMulti that overlooks the recorded errors
NoTxErrors(c) == FALSE

\* len(conn.GetTxErrors()) > 0
HasTxErrors(c) == Len(txErrors[c]) > 0

\* execMulti, and ExecMulti up to its call of RWLocks
execMulti(c) ==
    /\ Receive(c, <<"exec">>)
    /\ IF ~multi[c]
       THEN /\ Replied(c, Single(MakeErrReply("ERR EXEC without MULTI")))
            /\ UNCHANGED <<connVars, pc, cur, lockCallVars, touched, execEnd>>
       ELSE IF HasTxErrors(c)
       THEN /\ SetMultiStateFalse(c)
            /\ touched' = [touched EXCEPT ![c] = {}]
            /\ execEnd' = [execEnd EXCEPT ![c] = "errors"]
            /\ Replied(c, Single(ExecAbortReply))
            /\ UNCHANGED <<pc, cur, lockCallVars>>
       ELSE /\ cur' = [cur EXCEPT ![c] = <<"exec">>]
            /\ RWLocksCall(c, <<"exec">>, ExecMultiKeys(c))
            /\ UNCHANGED <<connVars, reply, touched, execEnd>>
    /\ UNCHANGED <<lockVars, dbVars, versionMap, verVars, txVars, txSnap>>
    /\ UNCHANGED aofVars

\* ExecMulti with the locks held: the watch check. With no queued command
\* the execution loop is empty and addVersion of no key follows.
ExecMultiCheck(c) ==
    /\ pc[c] = "txcheck"
    /\ IF isWatchingChanged(c)
       THEN ExecMultiExit(c, MakeEmptyMultiBulkReply, "conflict")
       ELSE /\ pc' = [pc EXCEPT ![c] = IF queue[c] = <<>> THEN "txver" ELSE "txrun"]
            /\ txSnap' = [txSnap EXCEPT ![c] = DbOf]
            /\ UNCHANGED <<lockVars, connVars, cur, lockCallVars, verVars, txVars, reply,
                           sent, touched, execEnd>>
    /\ UNCHANGED <<dbVars, versionMap>>
    /\ UNCHANGED aofVars

\* a loop that runs the queued commands last to first
NextQueuedReversed(c) == queue[c][Len(queue[c]) - Len(results[c])]

\* for _, cmdLine := range cmdLines: the command line of the next round
NextQueued(c) == queue[c][Len(results[c]) + 1]

\* one round of the execution loop: the undo log of the next queued command
\* is captured, then execWithLock runs it; after the last command
\* db.addVersion(writeKeys...) is called
ExecMultiStep(c) ==
    /\ pc[c] = "txrun"
    /\ Len(results[c]) < Len(queue[c])
    /\ LET cmdLine == NextQueued(c)
           undo == GetUndoLogs(DbOf, cmdLine)
           out == execWithLock(DbOf, cmdLine)
       IN  /\ GetWithLockReady(c, cmdLine)
           /\ data' = out.db.data
           /\ ttlMap' = out.db.ttl
           /\ IF out.panic
              THEN ExecMultiExit(c, Single(UnknownErrReply), "panic")
              ELSE IF IsErrorReply(out.reply)
              THEN /\ pc' = [pc EXCEPT ![c] = "txundo"]
                   /\ rollback' = [rollback EXCEPT ![c] = RollbackOrder(undoCmdLines[c])]
                   /\ UNCHANGED <<lockVars, connVars, cur, lockCallVars, verVars, results,
                                  undoCmdLines, reply, sent, histVars>>
              ELSE /\ results' = [results EXCEPT ![c] = Append(@, out.reply)]
                   /\ undoCmdLines' = [undoCmdLines EXCEPT ![c] = Append(@, undo)]
                   /\ MarkTouched(c, CollectKeys(<<cmdLine>>).w)
                   /\ IF Len(results[c]) + 1 = Len(queue[c])
                      THEN /\ pc' = [pc EXCEPT ![c] = "txver"]
                           /\ vkeys' = [vkeys EXCEPT ![c] = held[c].w]
                      ELSE UNCHANGED <<pc, vkeys>>
                   /\ UNCHANGED <<lockVars, connVars, cur, lockCallVars, vread,
                                  rollback, reply, sent, txSnap, execEnd>>
    /\ UNCHANGED versionMap
    /\ UNCHANGED aofVars

\* ExecMulti returns the replies of the queued commands
ExecMultiReturn(c) ==
    /\ pc[c] = "txver"
    /\ vkeys[c] = <<>>
    /\ ExecMultiExit(c, MakeMultiRawReply(results[c]), "done")
    /\ UNCHANGED <<dbVars, versionMap>>
    /\ UNCHANGED aofVars

\* one command line of the rollback loop; its reply is dropped
ExecMultiUndo(c) ==
    /\ pc[c] = "txundo"
    /\ rollback[c] # <<>>
    /\ GetWithLockReady(c, Head(rollback[c]))
    /\ LET out == execWithLock(DbOf, Head(rollback[c]))
       IN  /\ data' = out.db.data
           /\ ttlMap' = out.db.ttl
           /\ IF out.panic
              THEN ExecMultiExit(c, Single(UnknownErrReply), "panic")
              ELSE /\ rollback' = [rollback EXCEPT ![c] = Tail(@)]
                   /\ UNCHANGED <<lockVars, connVars, pc, cur, lockCallVars, verVars,
                                  results, undoCmdLines, reply, sent, histVars>>
    /\ UNCHANGED versionMap
    /\ UNCHANGED aofVars

\* the rollback loop is over: EXECABORT
ExecMultiAbort(c) ==
    /\ pc[c] = "txundo"
    /\ rollback[c] = <<>>
    /\ ExecMultiExit(c, Single(ExecAbortReply), "rolledback")
    /\ UNCHANGED <<dbVars, versionMap>>
    /\ UNCHANGED aofVars

-----------------------------------------------------------------------------
(* Spec: two connections on one database *)

-----------------------------------------------------------------------------
(* The skiplist: datastruct/sortedset/skiplist.go. Level i of the source is
   level i + 1 here; nodes are numbered in the order of their creation. *)

maxLevel == 16

\* the header's number, and the nil pointer
Header == 0
Nil == -1

\* the order of the member strings
MemberOrd(member) == CASE member = "" -> 0 [] member = "m" -> 1 [] member = "n" -> 2

makeNode(level, score, member) ==
    [score |-> score, member |-> member, backward |-> Nil,
     forward |-> [i \in 1..level |-> Nil], span |-> [i \in 1..level |-> 0]]

makeSkiplist ==
    [level |-> 1, length |-> 0, tail |-> Nil,
     node |-> [x \in {Header} |-> makeNode(maxLevel, 0, "")]]

\* the loop condition of insert and remove: the node sorts before the element
Before(n, score, member) ==
    \/ n.score < score
    \/ n.score = score /\ MemberOrd(n.member) < MemberOrd(member)

\* the inner loop at level i from node x with rank r
RECURSIVE Walk(_, _, _, _, _, _)
Walk(s, x, i, r, score, member) ==
    LET f == s.node[x].forward[i]
    IN  IF f # Nil /\ Before(s.node[f], score, member)
        THEN Walk(s, f, i, r + s.node[x].span[i], score, member)
        ELSE [node |-> x, rank |-> r]

\* the outer loop from level i down: update and rank, which are nil and 0
\* above skiplist.level
RECURSIVE SearchDown(_, _, _, _, _, _, _)
SearchDown(s, i, x, r, acc, score, member) ==
    IF i = 0 THEN acc
    ELSE LET w == Walk(s, x, i, r, score, member)
         IN  SearchDown(s, i - 1, w.node, w.rank,
                        [update |-> [acc.update EXCEPT ![i] = w.node],
                         rank |-> [acc.rank EXCEPT ![i] = w.rank]],
                        score, member)

Search(s, score, member) ==
    SearchDown(s, s.level, Header, 0,
               [update |-> [i \in 1..maxLevel |-> Nil], rank |-> [i \in 1..maxLevel |-> 0]],
               score, member)

\* insert, the loop over the levels of the new node x: a nil update[i]
\* makes update[i].level[i] panic
RECURSIVE LinkLevels(_, _, _, _, _)
LinkLevels(s, x, i, level, f) ==
    IF i > level THEN [sl |-> s, panic |-> FALSE]
    ELSE IF f.update[i] = Nil THEN [sl |-> s, panic |-> TRUE]
    ELSE LET u == f.update[i]
             passed == f.rank[1] - f.rank[i]
         IN  LinkLevels([s EXCEPT !.node[x].forward[i] = s.node[u].forward[i],
                                  !.node[x].span[i] = s.node[u].span[i] - passed,
                                  !.node[u].forward[i] = x,
                                  !.node[u].span[i] = passed + 1],
                        x, i + 1, level, f)

\* insert, the loop over the levels above the new node
RECURSIVE BumpSpans(_, _, _)
BumpSpans(s, i, f) ==
    IF i > s.level THEN s
    ELSE BumpSpans([s EXCEPT !.node[f.update[i]].span[i] = @ + 1], i + 1, f)

\* skiplist.insert(score, member) with randomLevel() = level; x numbers the
\* new node. A panic leaves what the statements before it have done.
insert(s, x, score, member, level) ==
    LET f == Search(s, score, member)
        made == [s EXCEPT !.node = [y \in DOMAIN s.node \cup {x} |->
                                      IF y = x THEN makeNode(level, score, member)
                                      ELSE s.node[y]]]
        linked == LinkLevels(made, x, 1, level, f)
    IN  IF linked.panic THEN linked
        ELSE LET bumped == BumpSpans(linked.sl, level + 1, f)
                 back == [bumped EXCEPT !.node[x].backward =
                             IF f.update[1] = Header THEN Nil ELSE f.update[1]]
                 next == back.node[x].forward[1]
                 tied == IF next # Nil THEN [back EXCEPT !.node[next].backward = x]
                         ELSE [back EXCEPT !.tail = x]
             IN  [sl |-> [tied EXCEPT !.length = @ + 1], panic |-> FALSE]

\* removeNode, the loop over i < len(update), which is maxLevel
RECURSIVE UnlinkLevels(_, _, _, _)
UnlinkLevels(s, x, i, f) ==
    IF i > maxLevel THEN [sl |-> s, panic |-> FALSE]
    ELSE IF f.update[i] = Nil THEN [sl |-> s, panic |-> TRUE]
    ELSE LET u == f.update[i]
         IN  UnlinkLevels(IF s.node[u].forward[i] = x
                          THEN [s EXCEPT !.node[u].span[i] = @ + s.node[x].span[i] - 1,
                                         !.node[u].forward[i] = s.node[x].forward[i]]
                          ELSE [s EXCEPT !.node[u].span[i] = @ - 1],
                          x, i + 1, f)

\* removeNode, the loop that lowers skiplist.level
RECURSIVE LowerLevel(_)
LowerLevel(s) ==
    IF s.level > 1 /\ s.node[Header].forward[s.level] = Nil
    THEN LowerLevel([s EXCEPT !.level = @ - 1])
    ELSE s

removeNode(s, x, f) ==
    LET unlinked == UnlinkLevels(s, x, 1, f)
    IN  IF unlinked.panic THEN unlinked
        ELSE LET u == unlinked.sl
                 next == u.node[x].forward[1]
                 tied == IF next # Nil
                         THEN [u EXCEPT !.node[next].backward = u.node[x].backward]
                         ELSE [u EXCEPT !.tail = u.node[x].backward]
                 lowered == LowerLevel(tied)
             IN  [sl |-> [lowered EXCEPT !.length = @ - 1,
                                         !.node = [y \in DOMAIN lowered.node \ {x} |->
                                                      lowered.node[y]]],
                  panic |-> FALSE]

\* skiplist.remove(score, member): the result, and whether the node was found
remove(s, score, member) ==
    LET f == Search(s, score, member)
        x == s.node[f.update[1]].forward[1]
    IN  IF x # Nil /\ s.node[x].score = score /\ s.node[x].member = member
        THEN [found |-> TRUE] @@ removeNode(s, x, f)
        ELSE [found |-> FALSE, sl |-> s, panic |-> FALSE]

\* the values randomLevel() returns
randomLevel == 1..maxLevel

\* len(dict.table) of the dictionary that is scanned
ShardCount == 3

\* the channels of the model and the mutexes of hub.subsLocker they reach
Channels == {"c1", "c2"}
Stripes == {1, 2}

\* a connection that is in no call of the hub
NoList == [ok |-> FALSE, list |-> <<>>]
NoOp ==
    [name |-> "idle", topics |-> <<>>, want |-> <<>>, locked |-> {}, phase |-> "idle",
     seen |-> NoList]

\* the hub after construction: no channel, every mutex free
MakeHub ==
    [subs |-> EmptyMap, table |-> [i \in Stripes |-> NoTask],
     chans |-> [t \in Tasks |-> {}], op |-> [t \in Tasks |-> NoOp], n |-> 0]

\* config.Properties.Databases of the server with several databases
Databases == 2
DbIndices == 0..(Databases - 1)

\* the two calls of Rewrite that may run side by side
Rewriters == {"r1", "r2"}

NoRewrite == [phase |-> "idle", fileSize |-> 0, dbIdx |-> 0, tmpFile |-> <<>>, i |-> 0]

\* no server runs, the log file is empty
NoServer ==
    [fsync |-> "down", file |-> <<>>, currentDB |-> 0, chan |-> <<>>,
     conn |-> [t \in Tasks |-> 0], live |-> [d \in DbIndices |-> NoSnap],
     rw |-> [r \in Rewriters |-> NoRewrite], writes |-> 0, starts |-> 0, rewrites |-> 0]

\* no command has been sent
NoLast ==
    [n |-> 0, cmdLine |-> <<>>, reply |-> <<>>, before |-> NoSnap, after |-> NoSnap,
     aof |-> <<>>, panic |-> FALSE, log |-> <<>>]

\* no expiration task is scheduled or running, no key is locked, and the
\* connection is between two commands
NoWheel ==
    [sched |-> [k \in {} |-> 0], owner |-> [s \in UsedShards |-> "none"],
     conn |-> [phase |-> "idle", cmdLine |-> <<>>],
     task |-> [phase |-> "idle", key |-> "", at |-> 0],
     n |-> 0,
     lastRun |-> [n |-> 0, key |-> "", at |-> 0, now |-> 0, before |-> NoSnap,
                  after |-> NoSnap]]

\* EntityToCmd has not been called
NotMade == [key |-> "", entity |-> <<>>, cmd |-> <<>>, db |-> NoSnap]

\* GetEntity has not been called
NoCall == [key |-> "", expired |-> FALSE, ok |-> FALSE, entity |-> <<>>]

\* NewPersister on a file that does not exist yet; no rewrite is running
AofInit ==
    /\ aofFile = <<>>
    /\ aofChan = <<>>
    /\ rewritePc = "idle"
    /\ ctx = NoCtx
    /\ cursor = 0
    /\ written = 0
    /\ windowWrites = 0
    /\ effects = <<>>
    /\ flushPc = "idle"
    /\ pausingAof = "none"
    /\ listener = [pc |-> "range", p |-> <<>>]
    /\ closePc = "idle"
    /\ rewriteErr = "none"
    /\ clock = 0
    /\ got = NoCall
    /\ dict = [m |-> EmptyMap, count |-> 0]
    /\ removing = [t \in Tasks |-> <<>>]
    /\ sl = makeSkiplist
    /\ slHist = [stored |-> {}, ops |-> 0]
    /\ sset = [dict |-> EmptyMap]
    /\ remade = NotMade
    /\ loaded = [done |-> FALSE, db |-> NoSnap, panic |-> FALSE, live |-> NoSnap]
    /\ scan = [table |-> [i \in 1..ShardCount |-> {}], count |-> 0, passed |-> 0,
               cursor |-> 0, calls |-> 0, out |-> <<>>]
    /\ conns = [password |-> [c \in Tasks |-> ""], n |-> 0, c |-> NoTask,
                cmdLine |-> <<>>, reply |-> <<>>]
    /\ client = [open |-> TRUE, n |-> 0, errs |-> 0, afterErr |-> 0, wrote |-> <<>>]
    /\ ranged = [cmdLine |-> <<>>, reply |-> <<>>, db |-> NoSnap]
    /\ hub = MakeHub
    /\ mlog = NoServer
    /\ lastCmd = NoLast
    /\ wheel = NoWheel

Init ==
    /\ LockInit
    /\ DbInit
    /\ ConnInit
    /\ CallInit
    /\ AofInit

Conn(c) ==
    \/ StartMulti(c)
    \/ DiscardMulti(c)
    \/ \E cmdLine \in Menu(c) : Watch(c, cmdLine)
    \/ \E cmdLine \in Menu(c) : EnqueueCmd(c, cmdLine)
    \/ execMulti(c)
    \/ \E cmdLine \in Menu(c) : execNormalCommand(c, cmdLine)
    \/ addVersionGet(c)
    \/ addVersionPut(c)
    \/ RWLocksStep(c)
    \/ execNormalRun(c)
    \/ ExecMultiCheck(c)
    \/ ExecMultiStep(c)
    \/ ExecMultiReturn(c)
    \/ ExecMultiUndo(c)
    \/ ExecMultiAbort(c)

Next == \E c \in Tasks : Conn(c)

Spec == Init /\ [][Next]_vars

-----------------------------------------------------------------------------
(* LockSpec: bare tasks that lock and unlock arbitrary batches of keys *)

RECURSIVE SeqsUpTo(_, _)
SeqsUpTo(S, n) ==
    IF n = 0 THEN {<<>>}
    ELSE LET shorter == SeqsUpTo(S, n - 1)
         IN  shorter \cup {Append(q, x) : q \in shorter, x \in S}

\* every split of at most MaxBatchLen keys, in any order and with
\* duplicates, into write keys and read keys
Batches ==
    {b \in [w : SeqsUpTo(AllKeys, MaxBatchLen), r : SeqsUpTo(AllKeys, MaxBatchLen)] :
        Len(b.w) + Len(b.r) <= MaxBatchLen}

LInit == Init

\* a task calls RWLocks(writeKeys, readKeys)
LCall(t) ==
    /\ pc[t] = "idle"
    /\ sent[t] < MaxRounds
    /\ \E b \in Batches : RWLocksCall(t, <<>>, b)
    /\ sent' = [sent EXCEPT ![t] = @ + 1]
    /\ UNCHANGED <<lockVars, dbVars, versionMap, connVars, cur, verVars, txVars, reply,
                   histVars>>
    /\ UNCHANGED aofVars

\* the holder calls RWUnLocks with the same batch
LRelease(t) ==
    /\ pc[t] = "locked"
    /\ RWUnLocks(t, held[t].w, held[t].r)
    /\ pc' = [pc EXCEPT ![t] = "idle"]
    /\ held' = [held EXCEPT ![t] = NoBatch]
    /\ UNCHANGED <<dbVars, versionMap, connVars, cur, plan, verVars, txVars, reply, sent,
                   histVars>>
    /\ UNCHANGED aofVars

LTask(t) ==
    \/ LCall(t)
    \/ RWLocksStep(t)
    \/ LRelease(t)

LNext == \E t \in Tasks : LTask(t)

\* every task that can take a step eventually takes one: the Go scheduler
\* runs every runnable goroutine, and every holder releases
LockSpec == LInit /\ [][LNext]_vars /\ \A t \in Tasks : WF_vars(LTask(t))

-----------------------------------------------------------------------------
(* AofSpec: a server whose database is bound to a persister (bindPersister), *)
(* one writer, the goroutine of listenCmd, and one Rewrite: aof/rdb.go,     *)
(* aof/rewrite.go. The server has one database, index 0: currentDB and the *)
(* dbIndex of every payload are 0, so writeAof never writes a SELECT.       *)

\* the write commands the writer sends
AofMenu ==
    {<<"zadd", "a", "1", "m">>, <<"zadd", "a", "2", "m">>, <<"rename", "a", "b">>,
     <<"del", "b">>}

\* everything but the database and the persister
serverVars ==
    <<lockVars, versionMap, connVars, pc, cur, lockCallVars, verVars, txVars, reply, sent,
      histVars, persistVars>>

\* between StartRewrite and FinishRewrite
Rewriting == rewritePc \in {"started", "generating", "generated"}

Counted(n) == IF Rewriting THEN windowWrites + n ELSE windowWrites

\* utils.ToCmdLine("SELECT", strconv.Itoa(i))
SelectCmd(i) == <<"SELECT", IntStr(i)>>

\* A connection executes a write command; its executor hands the command
\* line to db.addAof, and SaveCmdLine sends it on aofChan.
SaveCmdLine(cmdLine) ==
    /\ written < MaxWrites
    /\ LET out == execWithLock(DbOf, cmdLine)
       IN  /\ data' = out.db.data
           /\ ttlMap' = out.db.ttl
           /\ aofChan' = aofChan \o out.aof
           /\ windowWrites' = Counted(Len(out.aof))
           /\ effects' = effects \o out.aof
    /\ written' = written + 1
    /\ UNCHANGED <<aofFile, rewritePc, ctx, cursor, serverVars>>

\* listenCmd takes a payload from aofChan and writeAof appends it to the file
listenCmd ==
    /\ aofChan # <<>>
    /\ aofFile' = Append(aofFile, Head(aofChan))
    /\ aofChan' = Tail(aofChan)
    /\ windowWrites' = Counted(1)
    /\ UNCHANGED <<dbVars, rewritePc, ctx, cursor, written, effects, serverVars>>

\* StartRewrite: the size of the file is recorded, a temp file is created
StartRewrite ==
    /\ rewritePc = "idle"
    /\ ctx' = [fileSize |-> Len(aofFile), dbIdx |-> 0, tmpFile |-> <<>>]
    /\ rewritePc' = "started"
    /\ UNCHANGED <<dbVars, aofFile, aofChan, cursor, written, windowWrites, effects, serverVars>>

\* the keys in the order ConcurrentDict.ForEach reaches their shards
RECURSIVE ByShard(_)
ByShard(keys) ==
    IF keys = {} THEN <<>>
    ELSE LET first == CHOOSE x \in keys : \A y \in keys : spread(x) <= spread(y)
         IN  <<first>> \o ByShard(keys \ {first})

ForEachOrder == ByShard(DbKeys)

\* generateAof up to its ForEach: the handler made by newRewriteHandler loads
\* the first fileSize bytes of the file into a database of its own, which
\* nothing reads afterwards; SELECT 0 is written to the temp file
generateAofSelect ==
    /\ rewritePc = "started"
    /\ ctx' = [ctx EXCEPT !.tmpFile = Append(@, SelectCmd(0))]
    /\ cursor' = 0
    /\ rewritePc' = "generating"
    /\ UNCHANGED <<dbVars, aofFile, aofChan, written, windowWrites, effects, serverVars>>

\* what the callback of generateAof writes for one key of persister.db
DumpKey(db, key) ==
    IF key \notin DOMAIN db.data THEN <<>>
    ELSE <<EntityToCmd(key, db.data[key])>>
            \o (IF key \in DOMAIN db.ttl THEN <<MakeExpireCmd(key, db.ttl[key])>> ELSE <<>>)

\* persister.db.ForEach reaches the next shard, under that shard's read lock
generateAofKey ==
    /\ rewritePc = "generating"
    /\ cursor < Len(ForEachOrder)
    /\ ctx' = [ctx EXCEPT !.tmpFile = @ \o DumpKey(DbOf, ForEachOrder[cursor + 1])]
    /\ cursor' = cursor + 1
    /\ rewritePc' = IF cursor + 1 = Len(ForEachOrder) THEN "generated" ELSE "generating"
    /\ UNCHANGED <<dbVars, aofFile, aofChan, written, windowWrites, effects, serverVars>>

\* FinishRewrite: SELECT ctx.dbIdx and the file from ctx.fileSize on are
\* copied to the temp file, which replaces the file; SELECT currentDB is
\* appended
FinishRewrite ==
    /\ rewritePc = "generated"
    /\ LET tail == SubSeq(aofFile, ctx.fileSize + 1, Len(aofFile))
           tmpFile == (ctx.tmpFile \o <<SelectCmd(ctx.dbIdx)>>) \o tail
       IN  /\ aofFile' = Append(tmpFile, SelectCmd(0))
           /\ ctx' = [ctx EXCEPT !.tmpFile = tmpFile]
    /\ rewritePc' = "finished"
    /\ UNCHANGED <<dbVars, aofChan, cursor, written, windowWrites, effects, serverVars>>

AofNext ==
    \/ \E cmdLine \in AofMenu : SaveCmdLine(cmdLine)
    \/ listenCmd
    \/ StartRewrite
    \/ generateAofSelect
    \/ generateAofKey
    \/ FinishRewrite

AofSpec == Init /\ [][AofNext]_vars

\* the loop of LoadAof on payloads that carry the command lines of the
\* file, executed in order; Server.Exec serves SELECT and FLUSHDB itself and hands the rest
\* to the selected database
RECURSIVE LoadAof(_, _)
LoadAof(db, file) ==
    IF file = <<>> THEN db
    ELSE LoadAof(CASE ToLower(Head(file)[1]) = "select" -> db
                   [] ToLower(Head(file)[1]) = "flushdb" -> NoSnap
                   [] OTHER -> execWithLock(db, Head(file)).db,
                 Tail(file))

-----------------------------------------------------------------------------
(* A rewrite of a quiescent server: the commands are executed and written to
   the file first, and nothing is executed while Rewrite runs *)

QuietMenu ==
    {<<"hset", "a", "f", "1">>, <<"zadd", "b", "1", "m">>, <<"expire", "b", "10">>,
     <<"del", "a">>}

\* a connection executes a write command while no rewrite is running
QuietWrite(cmdLine) ==
    /\ rewritePc = "idle"
    /\ SaveCmdLine(cmdLine)

\* Rewrite is called once listenCmd has written every payload of aofChan
QuietStart ==
    /\ aofChan = <<>>
    /\ StartRewrite

QuietNext ==
    \/ \E cmdLine \in QuietMenu : QuietWrite(cmdLine)
    \/ listenCmd
    \/ QuietStart
    \/ generateAofSelect
    \/ generateAofKey
    \/ FinishRewrite

QuietSpec == Init /\ [][QuietNext]_vars

-----------------------------------------------------------------------------
(* FLUSHDB beside the write commands of other connections *)

FlushMenu == {<<"hset", "a", "f", "1">>, <<"hset", "a", "f", "2">>, <<"del", "a">>}

FlushDBCmd == <<"FlushDB">>

\* the connections, their locks and their transactions
clientVars ==
    <<lockVars, connVars, pc, cur, lockCallVars, verVars, txVars, reply, sent, histVars>>

\* Server.execFlushDB up to its return statement: the command line is handed
\* to SaveCmdLine
execFlushDB ==
    /\ flushPc = "idle"
    /\ written < MaxWrites
    /\ aofChan' = Append(aofChan, FlushDBCmd)
    /\ windowWrites' = Counted(1)
    /\ written' = written + 1
    /\ flushPc' = "saved"
    /\ UNCHANGED <<dbVars, versionMap, aofFile, rewritePc, ctx, cursor, effects, clientVars,
                   taskVars, rewriteErr, libVars>>

\* Server.FlushDB: loadDB stores a database made by makeBasicDB (empty data,
\* ttlMap and versionMap) in the slot of the selected one
FlushDB ==
    /\ flushPc = "saved"
    /\ data' = EmptyMap
    /\ ttlMap' = EmptyMap
    /\ versionMap' = EmptyMap
    /\ effects' = Append(effects, FlushDBCmd)
    /\ flushPc' = "idle"
    /\ UNCHANGED <<aofFile, aofChan, rewritePc, ctx, cursor, written, windowWrites, clientVars,
                   taskVars, rewriteErr, libVars>>

FlushNext ==
    \/ \E cmdLine \in FlushMenu : SaveCmdLine(cmdLine)
    \/ execFlushDB
    \/ FlushDB
    \/ listenCmd

FlushSpec == Init /\ [][FlushNext]_vars

-----------------------------------------------------------------------------
(* Persister.Close beside the task running listenCmd, step by step *)

CloseMenu == {<<"hset", "a", "f", "1">>, <<"hset", "b", "f", "1">>}

rewriteVars == <<rewritePc, ctx, cursor>>

\* what the tasks of the persister leave alone
persisterFrame ==
    <<dbVars, versionMap, clientVars, rewriteVars, written, windowWrites, effects, flushPc,
      rewriteErr, libVars>>

\* close(persister.aofChan) has run
ChanClosed == closePc \in {"waiting", "received", "done"}

\* a connection executes a write command before Close is called
CloseWrite(cmdLine) ==
    /\ closePc = "idle"
    /\ SaveCmdLine(cmdLine)

\* listenCmd: the range over aofChan yields the next payload
listenCmdRange ==
    /\ listener.pc = "range"
    /\ aofChan # <<>>
    /\ listener' = [pc |-> "lock", p |-> Head(aofChan)]
    /\ aofChan' = Tail(aofChan)
    /\ UNCHANGED <<aofFile, pausingAof, closePc, persisterFrame>>

\* listenCmd: the range ends once aofChan is closed and empty
listenCmdRangeEnd ==
    /\ listener.pc = "range"
    /\ aofChan = <<>>
    /\ ChanClosed
    /\ listener' = [listener EXCEPT !.pc = "send"]
    /\ UNCHANGED <<aofFile, aofChan, pausingAof, closePc, persisterFrame>>

\* writeAof: persister.pausingAof.Lock()
writeAofLock ==
    /\ listener.pc = "lock"
    /\ pausingAof = "none"
    /\ pausingAof' = "listener"
    /\ listener' = [listener EXCEPT !.pc = "write"]
    /\ UNCHANGED <<aofFile, aofChan, closePc, persisterFrame>>

\* writeAof: the command line is written to the file and the deferred
\* Unlock runs
writeAof ==
    /\ listener.pc = "write"
    /\ aofFile' = Append(aofFile, listener.p)
    /\ pausingAof' = "none"
    /\ listener' = [pc |-> "range", p |-> <<>>]
    /\ UNCHANGED <<aofChan, closePc, persisterFrame>>

\* Close: persister.pausingAof.Lock()
CloseLock ==
    /\ closePc = "idle"
    /\ pausingAof = "none"
    /\ pausingAof' = "close"
    /\ closePc' = "locked"
    /\ UNCHANGED <<aofFile, aofChan, listener, persisterFrame>>

\* Close: close(persister.aofChan); the receive from aofFinished follows
CloseChan ==
    /\ closePc = "locked"
    /\ closePc' = "waiting"
    /\ UNCHANGED <<aofFile, aofChan, pausingAof, listener, persisterFrame>>

\* aofFinished is unbuffered: the send of listenCmd and the receive of Close
\* happen together
aofFinishedSignal ==
    /\ listener.pc = "send"
    /\ closePc = "waiting"
    /\ listener' = [listener EXCEPT !.pc = "exit"]
    /\ closePc' = "received"
    /\ UNCHANGED <<aofFile, aofChan, pausingAof, persisterFrame>>

\* Close: the file is closed, the deferred Unlock runs
CloseFile ==
    /\ closePc = "received"
    /\ closePc' = "done"
    /\ pausingAof' = "none"
    /\ UNCHANGED <<aofFile, aofChan, listener, persisterFrame>>

CloseNext ==
    \/ \E cmdLine \in CloseMenu : CloseWrite(cmdLine)
    \/ listenCmdRange
    \/ listenCmdRangeEnd
    \/ writeAofLock
    \/ writeAof
    \/ CloseLock
    \/ CloseChan
    \/ aofFinishedSignal
    \/ CloseFile

CloseSpec == Init /\ [][CloseNext]_vars

-----------------------------------------------------------------------------
(* Rewrite beside the task running listenCmd, with persister.pausingAof *)

MutexMenu == {<<"zadd", "a", "1", "m">>, <<"zadd", "b", "2", "m">>}

\* what the steps of Rewrite that take or release the mutex leave alone
rewriteFrame ==
    <<dbVars, versionMap, clientVars, aofChan, cursor, written, windowWrites, effects, flushPc,
      listener, closePc, rewriteErr, libVars>>

\* StartRewrite: persister.pausingAof.Lock()
StartRewriteLock ==
    /\ rewritePc = "idle"
    /\ pausingAof = "none"
    /\ pausingAof' = "rewrite"
    /\ rewritePc' = "starting"
    /\ UNCHANGED <<aofFile, ctx, rewriteFrame>>

\* StartRewrite returns its context and the mutex stays locked
StartRewriteKeepsLock ==
    /\ rewritePc = "starting"
    /\ ctx' = [fileSize |-> Len(aofFile), dbIdx |-> 0, tmpFile |-> <<>>]
    /\ rewritePc' = "started"
    /\ UNCHANGED <<aofFile, pausingAof, rewriteFrame>>

\* StartRewrite: the file is synced, its size recorded, the temp file
\* created; the deferred Unlock runs
StartRewriteUnlock ==
    /\ rewritePc = "starting"
    /\ ctx' = [fileSize |-> Len(aofFile), dbIdx |-> 0, tmpFile |-> <<>>]
    /\ rewritePc' = "started"
    /\ pausingAof' = "none"
    /\ UNCHANGED <<aofFile, rewriteFrame>>

\* FinishRewrite: persister.pausingAof.Lock()
FinishRewriteLock ==
    /\ rewritePc = "generated"
    /\ pausingAof = "none"
    /\ pausingAof' = "rewrite"
    /\ rewritePc' = "finishing"
    /\ UNCHANGED <<aofFile, ctx, rewriteFrame>>

\* FinishRewrite: the tail of the file is copied to the temp file, which
\* replaces the file; the deferred Unlock runs
FinishRewriteUnlock ==
    /\ rewritePc = "finishing"
    /\ LET tail == SubSeq(aofFile, ctx.fileSize + 1, Len(aofFile))
           tmpFile == (ctx.tmpFile \o <<SelectCmd(ctx.dbIdx)>>) \o tail
       IN  /\ aofFile' = Append(tmpFile, SelectCmd(0))
           /\ ctx' = [ctx EXCEPT !.tmpFile = tmpFile]
    /\ rewritePc' = "finished"
    /\ pausingAof' = "none"
    /\ UNCHANGED rewriteFrame

MutexNext ==
    \/ \E cmdLine \in MutexMenu : SaveCmdLine(cmdLine)
    \/ listenCmdRange
    \/ writeAofLock
    \/ writeAof
    \/ StartRewriteLock
    \/ StartRewriteUnlock
    \/ generateAofSelect
    \/ generateAofKey
    \/ FinishRewriteLock
    \/ FinishRewriteUnlock

MutexSpec == Init /\ [][MutexNext]_vars

-----------------------------------------------------------------------------
(* Rewrite with file operations that may fail *)

\* what a failing step of Rewrite leaves alone
failFrame ==
    <<dbVars, versionMap, clientVars, aofFile, aofChan, written, windowWrites, effects, flushPc,
      taskVars, libVars>>

\* StartRewrite: aofFile.Sync or os.CreateTemp fails; the error is returned
\* and Rewrite returns it
StartRewriteFail ==
    /\ rewritePc = "idle"
    /\ rewritePc' = "failed"
    /\ rewriteErr' = "StartRewrite"
    /\ UNCHANGED <<ctx, cursor, failFrame>>

\* generateAof: writing SELECT to the temp file fails; the error is returned
\* and Rewrite returns it
generateAofSelectFail ==
    /\ rewritePc = "started"
    /\ rewritePc' = "failed"
    /\ rewriteErr' = "generateAof"
    /\ UNCHANGED <<ctx, cursor, failFrame>>

\* generateAof: a Write of the callback fails; its error is discarded
\* (_, _ = tmpFile.Write) and ForEach goes on
generateAofKeyFail ==
    /\ rewritePc = "generating"
    /\ cursor < Len(ForEachOrder)
    /\ DumpKey(DbOf, ForEachOrder[cursor + 1]) # <<>>
    /\ cursor' = cursor + 1
    /\ rewritePc' = IF cursor + 1 = Len(ForEachOrder) THEN "generated" ELSE "generating"
    /\ rewriteErr' = "ForEach"
    /\ UNCHANGED <<ctx, failFrame>>

\* FinishRewrite: os.Open, Seek, the Write of SELECT or io.Copy fails;
\* FinishRewrite logs the error and returns
FinishRewriteFail ==
    /\ rewritePc = "generated"
    /\ rewritePc' = "failed"
    /\ rewriteErr' = "FinishRewrite"
    /\ UNCHANGED <<ctx, cursor, failFrame>>

FailNext ==
    \/ \E cmdLine \in AofMenu : SaveCmdLine(cmdLine)
    \/ listenCmd
    \/ StartRewrite
    \/ StartRewriteFail
    \/ generateAofSelect
    \/ generateAofSelectFail
    \/ generateAofKey
    \/ generateAofKeyFail
    \/ FinishRewrite
    \/ FinishRewriteFail

FailSpec == Init /\ [][FailNext]_vars

-----------------------------------------------------------------------------
(* One connection executing key commands one after the other *)

KeyMenu ==
    {<<"hset", "a", "f", "1">>, <<"hdel", "a", "f">>, <<"expire", "a", "10">>,
     <<"persist", "a">>, <<"del", "a">>, <<"rename", "a", "b">>, <<"rename", "a", "a">>,
     <<"rename", "b", "a">>}

KeyNext ==
    \/ \E cmdLine \in KeyMenu : SaveCmdLine(cmdLine)
    \/ listenCmd

KeySpec == Init /\ [][KeyNext]_vars

-----------------------------------------------------------------------------
(* A database read through GetEntity while time passes *)

MaxClock == 3
TtlSteps == {1, 2}
Entities == {[f |-> "1"], [f |-> "2"]}

\* db.IsExpired(key) at time now: whether the key has expired, and the
\* database it leaves (an expired key is removed)
IsExpiredAt(db, key, now) ==
    LET expired == key \in DOMAIN db.ttl /\ now > db.ttl[key]
    IN  [expired |-> expired, db |-> IF expired THEN Remove(db, key) ELSE db]

\* GetEntity that reports an expired key absent and leaves it in the maps
GetEntityKeeping(db, key, now) ==
    IF key \notin DOMAIN db.data THEN [db |-> db, ok |-> FALSE, entity |-> <<>>]
    ELSE IF key \in DOMAIN db.ttl /\ now > db.ttl[key]
         THEN [db |-> db, ok |-> FALSE, entity |-> <<>>]
         ELSE [db |-> db, ok |-> TRUE, entity |-> <<db.data[key]>>]

\* db.GetEntity(key) at time now: the database it leaves, ok, and the entity
GetEntity(db, key, now) ==
    IF key \notin DOMAIN db.data THEN [db |-> db, ok |-> FALSE, entity |-> <<>>]
    ELSE LET e == IsExpiredAt(db, key, now)
         IN  IF e.expired
             THEN [db |-> Remove(e.db, key), ok |-> FALSE, entity |-> <<>>]
             ELSE [db |-> db, ok |-> TRUE, entity |-> <<db.data[key]>>]

\* everything but the database, the clock and the last call
evictFrame ==
    <<versionMap, clientVars, aofFile, aofChan, rewriteVars, written, windowWrites, effects,
      flushPc, taskVars, rewriteErr, dictVars, skipVars, moreVars>>

\* time passes
Tick ==
    /\ clock < MaxClock
    /\ clock' = clock + 1
    /\ UNCHANGED <<dbVars, got, evictFrame>>

\* db.PutEntity(key, entity)
PutEntity(key, entity) ==
    /\ data' = MapPut(data, key, entity)
    /\ UNCHANGED <<ttlMap, clock, got, evictFrame>>

\* db.Expire(key, expireTime) on a key the caller found present
Expire(key, expireTime) ==
    /\ key \in DOMAIN data
    /\ ttlMap' = MapPut(ttlMap, key, expireTime)
    /\ UNCHANGED <<data, clock, got, evictFrame>>

\* the task db.Expire handed to the time wheel fires: check-lock-check, then
\* db.Remove(key) if the key has expired
ExpireTask(key) ==
    /\ key \in DOMAIN ttlMap
    /\ clock >= ttlMap[key]
    /\ IF clock > ttlMap[key]
       THEN /\ data' = MapRemove(data, key)
            /\ ttlMap' = MapRemove(ttlMap, key)
       ELSE UNCHANGED dbVars
    /\ UNCHANGED <<clock, got, evictFrame>>

\* a command reads key through db.GetEntity
GetEntityCall(key) ==
    LET res == GetEntity(DbOf, key, clock)
    IN  /\ data' = res.db.data
        /\ ttlMap' = res.db.ttl
        /\ got' = [key |-> key,
                   expired |-> key \in DOMAIN ttlMap /\ clock > ttlMap[key],
                   ok |-> res.ok,
                   entity |-> res.entity]
        /\ UNCHANGED <<clock, evictFrame>>

EvictNext ==
    \/ Tick
    \/ \E key \in DbKeys : \E entity \in Entities : PutEntity(key, entity)
    \/ \E key \in DbKeys : \E d \in TtlSteps : Expire(key, clock + d)
    \/ \E key \in DbKeys : ExpireTask(key)
    \/ \E key \in DbKeys : GetEntityCall(key)

EvictSpec == Init /\ [][EvictNext]_vars

-----------------------------------------------------------------------------
(* A ConcurrentDict used as DB.data is: the methods without lock, called by
   tasks that hold the key's shard lock. A task holding the write lock runs
   alone; two tasks holding the read lock run their calls side by side. *)

DictValues == {1, 2}

\* Remove is not called once dict.count is this far below zero
MaxSkew == 2

\* everything but the dictionary
dictFrame ==
    <<dbVars, versionMap, clientVars, aofFile, aofChan, rewriteVars, written, windowWrites,
      effects, flushPc, taskVars, rewriteErr, evictVars, skipVars, moreVars>>

\* no task is inside Remove
NoRemover == \A t \in Tasks : removing[t] = <<>>

\* dict.Put(key, val) by the holder of the write lock
DictPut(key, val) ==
    /\ NoRemover
    /\ dict' = [m |-> MapPut(dict.m, key, val),
                count |-> IF key \in DOMAIN dict.m THEN dict.count ELSE dict.count + 1]
    /\ UNCHANGED <<removing, dictFrame>>

\* dict.PutIfAbsent(key, val) by the holder of the write lock
DictPutIfAbsent(key, val) ==
    /\ NoRemover
    /\ dict' = IF key \in DOMAIN dict.m THEN dict
               ELSE [m |-> MapPut(dict.m, key, val), count |-> dict.count + 1]
    /\ UNCHANGED <<removing, dictFrame>>

\* dict.PutIfExists(key, val) by the holder of the write lock
DictPutIfExists(key, val) ==
    /\ NoRemover
    /\ dict' = IF key \in DOMAIN dict.m THEN [dict EXCEPT !.m = MapPut(@, key, val)]
               ELSE dict
    /\ UNCHANGED <<removing, dictFrame>>

\* dict.Clear(): the dictionary is replaced by one made by MakeConcurrent
DictClear ==
    /\ NoRemover
    /\ dict' = [m |-> EmptyMap, count |-> 0]
    /\ UNCHANGED <<removing, dictFrame>>

\* dict.Remove(key), the lookup: val, ok := s.m[key]. The caller holds the
\* read lock (GetEntity evicting an expired key) or the write lock.
DictRemoveFind(t, key) ==
    /\ removing[t] = <<>>
    /\ dict.count > -MaxSkew
    /\ key \in DOMAIN dict.m
    /\ removing' = [removing EXCEPT ![t] = <<key>>]
    /\ UNCHANGED <<dict, dictFrame>>

\* dict.Remove(key), after ok: delete(s.m, key); dict.decreaseCount()
DictRemoveDelete(t) ==
    /\ removing[t] # <<>>
    /\ dict' = [m |-> IF removing[t][1] \in DOMAIN dict.m
                      THEN MapRemove(dict.m, removing[t][1]) ELSE dict.m,
                count |-> dict.count - 1]
    /\ removing' = [removing EXCEPT ![t] = <<>>]
    /\ UNCHANGED dictFrame

DictNext ==
    \/ \E key \in DbKeys : \E val \in DictValues : DictPut(key, val)
    \/ \E key \in DbKeys : \E val \in DictValues : DictPutIfAbsent(key, val)
    \/ \E key \in DbKeys : \E val \in DictValues : DictPutIfExists(key, val)
    \/ DictClear
    \/ \E t \in Tasks : \E key \in DbKeys : DictRemoveFind(t, key)
    \/ \E t \in Tasks : DictRemoveDelete(t)

DictSpec == Init /\ [][DictNext]_vars

-----------------------------------------------------------------------------
(* Calls of insert and remove on one skiplist; a panic is recovered by
   Server.Exec and the skiplist stays as the panic left it *)

MaxOps == 3
Scores == {1, 2}
Members == {"m", "n"}

\* everything but the skiplist
skipFrame ==
    <<dbVars, versionMap, clientVars, aofFile, aofChan, rewriteVars, written, windowWrites,
      effects, flushPc, taskVars, rewriteErr, evictVars, dictVars, moreVars>>

\* SortedSet.Add inserts a member that the set does not hold
SkipInsert(score, member, level) ==
    /\ slHist.ops < MaxOps
    /\ \A e \in slHist.stored : e[2] # member
    /\ sl' = insert(sl, slHist.ops + 1, score, member, level).sl
    /\ slHist' = [stored |-> slHist.stored \cup {<<score, member>>}, ops |-> slHist.ops + 1]
    /\ UNCHANGED skipFrame

SkipRemove(score, member) ==
    /\ slHist.ops < MaxOps
    /\ LET res == remove(sl, score, member)
       IN  /\ sl' = res.sl
           /\ slHist' = [stored |-> IF res.found THEN slHist.stored \ {<<score, member>>}
                                    ELSE slHist.stored,
                         ops |-> slHist.ops + 1]
    /\ UNCHANGED skipFrame

SkipNext ==
    \/ \E score \in Scores : \E member \in Members : \E level \in randomLevel :
          SkipInsert(score, member, level)
    \/ \E score \in Scores : \E member \in Members : SkipRemove(score, member)

SkipSpec == Init /\ [][SkipNext]_vars

-----------------------------------------------------------------------------
(* Calls on one SortedSet, whose dict is sortedSet.dict and whose skiplist is
   sl; a panic is recovered by Server.Exec and the set stays as the panic
   left it *)

Deltas == {0, 1}

\* everything but the sorted set
zsetFrame ==
    <<dbVars, versionMap, clientVars, aofFile, aofChan, rewriteVars, written, windowWrites,
      effects, flushPc, taskVars, rewriteErr, evictVars, dictVars, marshalVars, loadVars,
      scanVars, authVars, handleVars, lateVars>>

\* the body of sortedSet.Add(member, score) on dict d and skiplist s, x being
\* the number of the node insert makes and level its height: the dict entry
\* is replaced first; skiplist.remove runs with the score the dict held
AddTo(d, s, x, member, score, level) ==
    LET put == MapPut(d, member, score)
    IN  IF member \in DOMAIN d
        THEN IF score # d[member]
             THEN LET removed == remove(s, d[member], member)
                  IN  IF removed.panic THEN [dict |-> put, sl |-> removed.sl]
                      ELSE [dict |-> put,
                            sl |-> insert(removed.sl, x, score, member, level).sl]
             ELSE [dict |-> put, sl |-> s]
        ELSE [dict |-> put, sl |-> insert(s, x, score, member, level).sl]

\* sortedSet.Add(member, score)
SortedSet_Add(member, score, level) ==
    /\ slHist.ops < MaxOps
    /\ LET res == AddTo(sset.dict, sl, slHist.ops + 1, member, score, level)
       IN  /\ sset' = [dict |-> res.dict]
           /\ sl' = res.sl
    /\ slHist' = [slHist EXCEPT !.ops = @ + 1]
    /\ UNCHANGED zsetFrame

\* sortedSet.Remove(member): a panic of skiplist.remove leaves the dict entry
SortedSet_Remove(member) ==
    /\ slHist.ops < MaxOps
    /\ IF member \in DOMAIN sset.dict
       THEN LET res == remove(sl, sset.dict[member], member)
            IN  /\ sl' = res.sl
                /\ sset' = IF res.panic THEN sset
                                ELSE [dict |-> MapRemove(sset.dict, member)]
       ELSE UNCHANGED <<sl, sset>>
    /\ slHist' = [slHist EXCEPT !.ops = @ + 1]
    /\ UNCHANGED zsetFrame

\* execZInrc on the sorted set of the key: sortedSet.Get returns the pointer
\* the dict holds, element.Score += delta writes through it, and Add then
\* finds the score it is given already in the dict
execZInrc(delta, field) ==
    /\ slHist.ops < MaxOps
    /\ IF field \in DOMAIN sset.dict
       THEN LET score == sset.dict[field] + delta
                bumped == MapPut(sset.dict, field, score)
                res == AddTo(bumped, sl, slHist.ops + 1, field, score, 1)
            IN  /\ sset' = [dict |-> res.dict]
                /\ sl' = res.sl
       ELSE UNCHANGED <<sl, sset>>
    /\ slHist' = [slHist EXCEPT !.ops = @ + 1]
    /\ UNCHANGED zsetFrame

ZSetNext ==
    \/ \E member \in Members : \E score \in Scores : \E level \in randomLevel :
          SortedSet_Add(member, score, level)
    \/ \E member \in Members : SortedSet_Remove(member)
    \/ \E delta \in Deltas : \E field \in Members : execZInrc(delta, field)

ZSetSpec == Init /\ [][ZSetNext]_vars

-----------------------------------------------------------------------------
(* Entities built by commands, serialized by EntityToCmd, and the command
   executed on an empty database *)

MarshalMenu ==
    {<<"hset", "a", "f", "1">>, <<"hset", "a", "g", "2">>, <<"zadd", "b", "1", "m">>,
     <<"zadd", "b", "2", "n">>, <<"del", "a">>}

\* everything but remade
marshalFrame ==
    <<dbVars, versionMap, clientVars, aofFile, aofChan, rewriteVars, written, windowWrites,
      effects, flushPc, taskVars, rewriteErr, evictVars, dictVars, skipVars, zsetVars,
      loadVars, scanVars, authVars, handleVars, lateVars>>

\* EntityToCmd(key, entity) for the entity stored under key, and the command
\* executed through execWithLock on a database that holds no key
Marshal(key) ==
    /\ key \in DOMAIN data
    /\ LET cmd == EntityToCmd(key, data[key])
       IN  remade' = [key |-> key, entity |-> data[key], cmd |-> cmd,
                      db |-> execWithLock(NoSnap, cmd).db]
    /\ UNCHANGED marshalFrame

MarshalNext ==
    \/ \E cmdLine \in MarshalMenu : QuietWrite(cmdLine)
    \/ \E key \in DbKeys : Marshal(key)

MarshalSpec == Init /\ [][MarshalNext]_vars

-----------------------------------------------------------------------------
(* A server started on the file another server wrote: the parser of
   datastruct/lock/lock_map.go and Persister.LoadAof *)

\* MakeMultiBulkReply(cmdLine).ToBytes() as the lines the parser reads: the
\* array header "*n", then for each argument its header "$len" and body
ToBytes(cmdLine) ==
    <<[kind |-> "*", n |-> Len(cmdLine), body |-> ""]>>
        \o [i \in 1..Len(cmdLine) |-> [kind |-> "$", n |-> 1, body |-> cmdLine[i]]]

RECURSIVE FileBytes(_)
FileBytes(file) ==
    IF file = <<>> THEN <<>> ELSE ToBytes(Head(file)) \o FileBytes(Tail(file))

\* protocolError(ch, msg)
protocolError(msg) == [kind |-> "err", Args |-> <<"protocol error: " \o msg>>]

\* parseArray on the header "*n": a negative n is a protocol error;
\* otherwise lines is made with length 0 and capacity n, the loop runs while
\* i < len(lines) and so reads no argument, and the payload carries the
\* empty lines
parseArray(line) ==
    IF line.n < 0 THEN protocolError("invalid array length")
    ELSE [kind |-> "multi", Args |-> <<>>]

\* parseBulkString on the header "$len": the body is read with it
parseBulkString(line) == [kind |-> "bulk", Args |-> <<line.body>>]

\* the switch of parse0 on the first byte of a line: any other line is split
\* at its blanks into the arguments of a command, which line.body holds
parseLine(line) ==
    CASE line.kind = "*" -> parseArray(line)
      [] line.kind = "$" -> parseBulkString(line)
      [] OTHER -> [kind |-> "multi", Args |-> line.body]

\* parse0: one payload per line read, up to the end of the stream
RECURSIVE ParseStream(_)
ParseStream(bytes) ==
    IF bytes = <<>> THEN <<>>
    ELSE <<parseLine(Head(bytes))>> \o ParseStream(Tail(bytes))

\* the loop of LoadAof over the payloads: a payload that is no multi bulk
\* is skipped; for empty Args the cmdLine[0] of Server.Exec panics and is
\* recovered there, and the r.Args[0] of LoadAof panics after it
RECURSIVE LoadPayloads(_, _)
LoadPayloads(db, payloads) ==
    IF payloads = <<>> THEN [db |-> db, panic |-> FALSE]
    ELSE IF Head(payloads).kind # "multi" THEN LoadPayloads(db, Tail(payloads))
    ELSE IF Head(payloads).Args = <<>> THEN [db |-> db, panic |-> TRUE]
    ELSE LoadPayloads(LoadAof(db, <<Head(payloads).Args>>), Tail(payloads))

LoadMenu ==
    {<<"hset", "a", "f", "1">>, <<"hset", "a", "f", "2">>, <<"hset", "b", "g", "x">>,
     <<"del", "a">>}

\* everything but loaded
loadFrame ==
    <<dbVars, versionMap, clientVars, aofFile, aofChan, rewriteVars, written, windowWrites,
      effects, flushPc, taskVars, rewriteErr, evictVars, dictVars, skipVars, zsetVars,
      marshalVars, scanVars, authVars, handleVars, lateVars>>

\* NewPersister of a second server on the file, once listenCmd has written
\* every payload of aofChan: LoadAof on an empty database
LoadAofCall ==
    /\ aofChan = <<>>
    /\ LET res == LoadPayloads(NoSnap, ParseStream(FileBytes(aofFile)))
       IN  loaded' = [done |-> TRUE, db |-> res.db, panic |-> res.panic, live |-> DbOf]
    /\ UNCHANGED loadFrame

LoadNext ==
    \/ \E cmdLine \in LoadMenu : QuietWrite(cmdLine)
    \/ listenCmd
    \/ LoadAofCall

LoadSpec == Init /\ [][LoadNext]_vars

-----------------------------------------------------------------------------
(* A ConcurrentDict filled with keys and then iterated with DictScan, each
   returned cursor being passed to the next call *)

ScanKeys == {"k1", "k2", "k3"}
Counts == 0..3

\* dict.Len() and dict.Keys() of a table
TableKeys(table) == UNION {table[i] : i \in 1..Len(table)}

\* the loop of DictScan from shardIndex on; shard i of the source is
\* table[i + 1]
RECURSIVE ScanLoop(_, _, _, _, _)
ScanLoop(table, from, shardIndex, count, result) ==
    IF shardIndex >= Len(table) THEN [keys |-> result, next |-> 0]
    ELSE IF /\ Len(result) + Cardinality(table[shardIndex + 1]) > count
            /\ shardIndex > from
         THEN [keys |-> result, next |-> shardIndex]
         ELSE ScanLoop(table, from, shardIndex + 1, count,
                       result \o SetToSeq(table[shardIndex + 1]))

\* a DictScan that returns the cursor of the shard after the one it stopped at
DictScanSkipping(table, from, count) ==
    LET r == ScanLoop(table, from, from, count, <<>>)
    IN  IF count >= Cardinality(TableKeys(table))
        THEN [keys |-> SetToSeq(TableKeys(table)), next |-> 0]
        ELSE [keys |-> r.keys, next |-> IF r.next = 0 THEN 0 ELSE r.next + 1]

\* dict.DictScan(cursor, count, "*"): the keys and the next cursor
DictScan(table, from, count) ==
    IF count >= Cardinality(TableKeys(table))
    THEN [keys |-> SetToSeq(TableKeys(table)), next |-> 0]
    ELSE ScanLoop(table, from, from, count, <<>>)

\* everything but scan
scanFrame ==
    <<dbVars, versionMap, clientVars, aofFile, aofChan, rewriteVars, written, windowWrites,
      effects, flushPc, taskVars, rewriteErr, evictVars, dictVars, skipVars, zsetVars,
      marshalVars, loadVars, authVars, handleVars, lateVars>>

\* dict.Put of a new key, which its hash code spreads to shard i, before the
\* iteration starts
ScanPut(key, i) ==
    /\ scan.calls = 0
    /\ key \notin TableKeys(scan.table)
    /\ scan' = [scan EXCEPT !.table[i] = @ \cup {key}]
    /\ UNCHANGED scanFrame

\* one call of the iteration: the first with cursor 0 and any count, the
\* later ones with the cursor returned and the same count
DictScanCall(count) ==
    /\ scan.calls = 0 \/ (scan.cursor # 0 /\ count = scan.count)
    /\ LET res == DictScan(scan.table, scan.cursor, count)
       IN  scan' = [scan EXCEPT !.count = count, !.passed = scan.cursor,
                                !.cursor = res.next, !.calls = @ + 1,
                                !.out = @ \o res.keys]
    /\ UNCHANGED scanFrame

ScanNext ==
    \/ \E key \in ScanKeys : \E i \in 1..ShardCount : ScanPut(key, i)
    \/ \E count \in Counts : DictScanCall(count)

ScanSpec == Init /\ [][ScanNext]_vars

-----------------------------------------------------------------------------
(* Connections of a server whose configuration sets requirepass. The calls
   are Server.Exec calls; the locks and versions a command takes on its way
   are those of Spec and are left out here *)

MaxCalls == 3

\* config.Properties.RequirePass
RequirePass == "pw"

AuthMenu == {<<"auth", "pw">>, <<"auth", "bad">>, <<"auth">>}
GuardedMenu == {<<"hset", "a", "f", "1">>, <<"hexists", "a", "f">>, <<"del", "a">>}

\* the reply the spec names for a command sent before AUTH
AuthRequiredReply == MakeErrReply("NOAUTH Authentication required")

isAuthenticated(c) ==
    IF RequirePass = "" THEN TRUE ELSE conns.password[c] = RequirePass

\* Auth(c, args): the reply, and the password the connection holds after it
Auth(c, args) ==
    IF Len(args) # 1
    THEN [reply |-> MakeErrReply("ERR wrong number of arguments for 'auth' command"),
          password |-> conns.password[c]]
    ELSE IF RequirePass = ""
    THEN [reply |-> MakeErrReply("ERR Client sent AUTH, but no password is set"),
          password |-> conns.password[c]]
    ELSE IF RequirePass # args[1]
    THEN [reply |-> MakeErrReply("ERR invalid password"), password |-> args[1]]
    ELSE [reply |-> MakeOkReply, password |-> args[1]]

\* everything but the database, the queue of the persister and conns
authFrame ==
    <<versionMap, clientVars, aofFile, rewriteVars, written, windowWrites, flushPc,
      taskVars, rewriteErr, evictVars, dictVars, skipVars, zsetVars, marshalVars, loadVars,
      scanVars, handleVars, lateVars>>

\* Server.Exec(c, cmdLine) with cmdName == "auth"
ExecAuth(c, cmdLine) ==
    /\ conns.n < MaxCalls
    /\ LET res == Auth(c, Tail(cmdLine))
       IN  conns' = [password |-> [conns.password EXCEPT ![c] = res.password],
                     n |-> conns.n + 1, c |-> c, cmdLine |-> cmdLine, reply |-> res.reply]
    /\ UNCHANGED <<dbVars, aofChan, effects, authFrame>>

\* Server.Exec(c, cmdLine) for a command of the selected database: no branch
\* of Server.Exec or DB.Exec reads the connection's password
ExecGuarded(c, cmdLine) ==
    /\ conns.n < MaxCalls
    /\ LET out == execWithLock(DbOf, cmdLine)
       IN  /\ data' = out.db.data
           /\ ttlMap' = out.db.ttl
           /\ aofChan' = aofChan \o out.aof
           /\ effects' = effects \o out.aof
           /\ conns' = [conns EXCEPT !.n = @ + 1, !.c = c, !.cmdLine = cmdLine,
                                     !.reply = out.reply]
    /\ UNCHANGED authFrame

AuthNext ==
    \/ \E c \in Tasks : \E cmdLine \in AuthMenu : ExecAuth(c, cmdLine)
    \/ \E c \in Tasks : \E cmdLine \in GuardedMenu : ExecGuarded(c, cmdLine)

AuthSpec == Init /\ [][AuthNext]_vars

-----------------------------------------------------------------------------
(* One connection served by Handler.Handle: the lines its client sends are
   parsed by parse0 and the payloads handled one by one *)

MaxLines == 3

\* the lines the client sends: an array header with a length that is no
\* length, an array header, the header and body of a bulk string, and
\* commands written as plain text
HandleMenu ==
    {[kind |-> "*", n |-> -1, body |-> <<>>],
     [kind |-> "*", n |-> 4, body |-> <<>>],
     [kind |-> "$", n |-> 1, body |-> "f"],
     [kind |-> "t", n |-> 0, body |-> <<"hset", "a", "f", "1">>],
     [kind |-> "t", n |-> 0, body |-> <<"del", "a">>]}

\* everything but the database, the queue of the persister and client
handleFrame ==
    <<versionMap, clientVars, aofFile, rewriteVars, written, windowWrites, flushPc,
      taskVars, rewriteErr, evictVars, dictVars, skipVars, zsetVars, marshalVars, loadVars,
      scanVars, authVars, lateVars>>

\* h.db.Exec(client, r.Args): cmdLine[0] of empty Args panics and is
\* recovered in Server.Exec
HandlerExec(db, args) ==
    IF args = <<>> THEN Panic(db) ELSE execWithLock(db, args)

\* one round of the loop of Handle on the payload of the line read;
\* writeOk is whether client.Write of the error reply succeeds
HandleLine(line, writeOk) ==
    /\ client.open
    /\ client.n < MaxLines
    /\ LET payload == parseLine(line)
           out == IF payload.kind = "multi" THEN HandlerExec(DbOf, payload.Args)
                  ELSE Outcome(DbOf, <<>>)
       IN  /\ data' = out.db.data
           /\ ttlMap' = out.db.ttl
           /\ aofChan' = aofChan \o out.aof
           /\ effects' = effects \o out.aof
           /\ client' =
                 CASE payload.kind = "err" ->
                        [client EXCEPT !.n = @ + 1, !.errs = @ + 1, !.open = writeOk,
                                       !.wrote = IF writeOk THEN MakeErrReply(payload.Args[1])
                                                 ELSE @]
                   [] payload.kind = "multi" ->
                        [client EXCEPT !.n = @ + 1, !.wrote = out.reply,
                                       !.afterErr = IF client.errs > 0 THEN @ + 1 ELSE @]
                   [] OTHER -> [client EXCEPT !.n = @ + 1]
    /\ UNCHANGED handleFrame

\* the stream ends: io.EOF, and closeClient
HandleEOF ==
    /\ client.open
    /\ client' = [client EXCEPT !.open = FALSE]
    /\ UNCHANGED <<dbVars, aofChan, effects, handleFrame>>

HandleNext ==
    \/ \E line \in HandleMenu : \E writeOk \in BOOLEAN : HandleLine(line, writeOk)
    \/ HandleEOF

HandleSpec == Init /\ [][HandleNext]_vars

-----------------------------------------------------------------------------
(* ZRANGE and ZREVRANGE on a sorted set: pubhub/pubhub.go *)

\* the ZADD lines of the client and its range commands: every start and stop
\* around a set of up to two members, with and without WITHSCORES, and a
\* line that names no stop
RangeInts == {"-3", "-2", "-1", "0", "1", "2"}
RangeNames == {"zrange", "zrevrange"}

RangeAdds == {<<"zadd", "b", score, member>> : score \in {"1", "2"}, member \in Members}

RangeMenu ==
    {<<name, "b", start, stop>> : name \in RangeNames, start \in RangeInts, stop \in RangeInts}
    \cup {<<name, "b", start, stop, "WITHSCORES">> :
             name \in RangeNames, start \in RangeInts, stop \in RangeInts}
    \cup {<<name, "b", "0">> : name \in RangeNames}

\* everything but the database, the queue of the persister and ranged
rangeFrame ==
    <<versionMap, clientVars, aofFile, rewriteVars, written, windowWrites, flushPc,
      taskVars, rewriteErr, evictVars, dictVars, skipVars, zsetVars, marshalVars, loadVars,
      scanVars, authVars, handleVars, hubVars, tailVars>>

\* the client adds a member to the sorted set b, with a score no member has
RangeZAdd(cmdLine) ==
    /\ IF HasEntity(DbOf, "b")
       THEN /\ cmdLine[4] \notin DOMAIN data["b"].dict
            /\ \A e \in data["b"].skiplist : e[1] # ParseInt(cmdLine[3])
       ELSE TRUE
    /\ LET out == execWithLock(DbOf, cmdLine)
       IN  /\ data' = out.db.data
           /\ ttlMap' = out.db.ttl
           /\ aofChan' = aofChan \o out.aof
           /\ effects' = effects \o out.aof
    /\ UNCHANGED <<ranged, rangeFrame>>

\* the client sends ZRANGE or ZREVRANGE
RangeCall(cmdLine) ==
    /\ LET out == execWithLock(DbOf, cmdLine)
       IN  /\ data' = out.db.data
           /\ ttlMap' = out.db.ttl
           /\ ranged' = [cmdLine |-> cmdLine, reply |-> out.reply, db |-> DbOf]
    /\ UNCHANGED <<aofChan, effects, rangeFrame>>

RangeNext ==
    \/ \E cmdLine \in RangeAdds : RangeZAdd(cmdLine)
    \/ \E cmdLine \in RangeMenu : RangeCall(cmdLine)

RangeSpec == Init /\ [][RangeNext]_vars

-----------------------------------------------------------------------------
(* Claims about the lock manager *)

\* a task of LockSpec whose next step is not blocked
LCanStep(t) ==
    \/ pc[t] = "idle" /\ sent[t] < MaxRounds
    \/ pc[t] = "locked"
    \/ /\ pc[t] = "locking"
       /\ IF HeadIsWrite(t)
          THEN CanLockAnnounce(t, Head(plan[t])) \/ CanLockEnter(t, Head(plan[t]))
          ELSE CanRLockEnter(t, Head(plan[t]))

LDone == \A t \in Tasks : pc[t] = "idle" /\ sent[t] = MaxRounds

\* C5: whatever batches the tasks lock (any key order, duplicates, any split
\* into write and read keys), no deadlock is reachable: in every reachable
\* state either some task can take a step or every task has acquired and
\* released all its batches. Every step of LNext makes progress (a shorter
\* plan, a later position, one more round), so under the fairness of
\* LockSpec every task that called RWLocks ends up holding its whole batch.
C5_NoDeadlock == LDone \/ \E t \in Tasks : LCanStep(t)

\* the keys of a batch, write keys first, as RWLocks concatenates them
BatchKeys(b) == b.w \o b.r

\* a task holds a two-shard batch whose keys name the higher shard first while
\* another task, whose batch names the same two shards lowest first, waits
\* for a shard the holder owns
C5_Witness ==
    \E t \in Tasks : \E u \in Tasks \ {t} :
        /\ pc[t] = "locked"
        /\ Len(BatchKeys(held[t])) = 2
        /\ spread(BatchKeys(held[t])[1]) > spread(BatchKeys(held[t])[2])
        /\ pc[u] = "locking"
        /\ Len(BatchKeys(held[u])) = 2
        /\ spread(BatchKeys(held[u])[1]) < spread(BatchKeys(held[u])[2])
        /\ \/ wOwner[Head(plan[u])] = t
           \/ /\ rHeld[Head(plan[u])][t] > 0
              /\ wOwner[Head(plan[u])] = u

-----------------------------------------------------------------------------
(* Claims about WATCH/MULTI/EXEC/DISCARD, checked under Spec *)

\* the keys of a batch as a set
KeysOf(batch) == SeqToSet(batch.w) \cup SeqToSet(batch.r)

\* key has the same value and the same TTL in both databases
SameKey(db1, db2, key) ==
    /\ (key \in DOMAIN db1.data) = (key \in DOMAIN db2.data)
    /\ key \in DOMAIN db1.data => db1.data[key] = db2.data[key]
    /\ (key \in DOMAIN db1.ttl) = (key \in DOMAIN db2.ttl)
    /\ key \in DOMAIN db1.ttl => db1.ttl[key] = db2.ttl[key]

\* C1: once another connection's write to a key took effect after this
\* connection watched the key and before its EXEC locked, the EXEC applies
\* none of the queued commands: it never gets to hold the reply of one.
C1_WatchedWriteAborts ==
    \A c \in Tasks :
        touched[c] # {} => ~(pc[c] \in {"txrun", "txver", "txundo"} /\ results[c] # <<>>)

\* C2: a step by which an EXEC that ran its commands returns without success
\* (a queued command replied an error and the rollback loop ended, or an
\* executor panicked) leaves every key of the transaction with the value and
\* the TTL it had when the transaction started.
C2_FailedExecRestores ==
    [][\A c \in Tasks :
          (pc[c] \in {"txrun", "txundo"} /\ pc'[c] = "idle")
              => \A key \in KeysOf(held[c]) :
                    SameKey([data |-> data', ttl |-> ttlMap'], txSnap[c], key)]_vars

\* C3: while a transaction is between its first and its last command, no
\* other connection is about to run a command on a key of the transaction
\* that the transaction has changed: what others read of the transaction's
\* keys is the state from before the transaction.
C3_Isolation ==
    \A t \in Tasks : \A u \in Tasks \ {t} :
        (pc[t] = "txrun" /\ results[t] # <<>> /\ pc[u] = "run")
            => \A key \in KeysOf(held[u]) \cap KeysOf(held[t]) :
                    SameKey(DbOf, txSnap[t], key)

\* the command line whose executor the connection is about to run
Executing(c) ==
    CASE pc[c] = "run" -> {cur[c]}
      [] pc[c] = "txrun" -> {NextQueued(c)}
      [] pc[c] = "txundo" /\ rollback[c] # <<>> -> {Head(rollback[c])}
      [] OTHER -> {}

\* C4: no command waits for a shard lock whose writer side its own task
\* holds: such a wait never ends, the command never replies and never
\* releases its locks.
C4_NoSelfBlock ==
    \A c \in Tasks : \A cmdLine \in Executing(c) :
        \A s \in GetWithLockShards(cmdLine) : wOwner[s] # c

\* the replies and the database of running cmdLines one after the other
RECURSIVE RunAll(_, _)
RunAll(db, cmdLines) ==
    IF cmdLines = <<>> THEN [db |-> db, replies |-> <<>>]
    ELSE LET out == execWithLock(db, Head(cmdLines))
             rest == RunAll(out.db, Tail(cmdLines))
         IN  [db |-> rest.db, replies |-> <<out.reply>> \o rest.replies]

\* a registered (key-space) command
KeySpace(cmdLine) == ToLower(cmdLine[1]) \in DOMAIN cmdTable

\* a command that passes the validation of EnqueueCmd
PassesValidation(cmdLine) ==
    /\ KeySpace(cmdLine)
    /\ validateArity(cmdTable[ToLower(cmdLine[1])].arity, cmdLine)

\* the step by which the EXEC of c returns the replies of its commands
ExecSucceeds(c) == cur[c] = <<"exec">> /\ pc'[c] = "idle" /\ execEnd'[c] = "done"

\* what EXEC does once every queued command succeeded: one reply per queued
\* command, those of running the queue in order on the database the
\* transaction started from, and the keys of the transaction in the state
\* that run leaves
RepliesInQueueOrder(c) ==
    LET run == RunAll(txSnap[c], queue[c])
    IN  /\ reply'[c] = MakeMultiRawReply(run.replies)
        /\ Len(reply'[c].items) = Len(queue[c])
        /\ \A key \in KeysOf(held[c]) :
              SameKey([data |-> data', ttl |-> ttlMap'], run.db, key)

\* C6, as stated: in InMulti every key-space command the connection sends is
\* answered QUEUED, appended to the queue and changes nothing in the
\* database; a successful EXEC returns one reply per queued command, in
\* queue order.
C6_EveryCommandQueued ==
    [][\A c \in Tasks :
          /\ \A cmdLine \in Menu(c) :
                (EnqueueCmd(c, cmdLine) /\ KeySpace(cmdLine))
                    => /\ reply'[c] = Single(MakeQueuedReply)
                       /\ queue'[c] = Append(queue[c], cmdLine)
                       /\ UNCHANGED dbVars
          /\ ExecSucceeds(c) => RepliesInQueueOrder(c)]_vars

\* C6, amended: in InMulti every key-space command that passes the enqueue
\* validation is answered QUEUED, appended to the queue and changes nothing
\* in the database; a successful EXEC returns one reply per queued command,
\* in queue order.
C6_ValidCommandQueued ==
    [][\A c \in Tasks :
          /\ \A cmdLine \in Menu(c) :
                (EnqueueCmd(c, cmdLine) /\ PassesValidation(cmdLine))
                    => /\ reply'[c] = Single(MakeQueuedReply)
                       /\ queue'[c] = Append(queue[c], cmdLine)
                       /\ UNCHANGED dbVars
          /\ ExecSucceeds(c) => RepliesInQueueOrder(c)]_vars

\* an EXEC returned the replies of two queued commands, and they differ
C6_Witness ==
    \E c \in Tasks :
        /\ pc[c] = "idle"
        /\ execEnd[c] = "done"
        /\ reply[c].kind = "multi"
        /\ Len(reply[c].items) = 2
        /\ reply[c].items[1] # reply[c].items[2]

\* C7: a command that fails the enqueue validation is recorded on the
\* connection; the record stays until EXEC or DISCARD; an EXEC that finds a
\* record replies EXECABORT at once, runs no queued command, leaves the
\* database and the versions alone and returns the connection to Normal.
C7_EnqueueErrorAborts ==
    [][\A c \in Tasks :
          /\ \A cmdLine \in Menu(c) :
                (EnqueueCmd(c, cmdLine) /\ ~PassesValidation(cmdLine))
                    => /\ Len(txErrors'[c]) = Len(txErrors[c]) + 1
                       /\ queue'[c] = queue[c]
          /\ (txErrors[c] # <<>> /\ txErrors'[c] = <<>>)
                => (execMulti(c) \/ DiscardMulti(c))
          /\ (execMulti(c) /\ multi[c] /\ txErrors[c] # <<>>)
                => /\ reply'[c] = Single(ExecAbortReply)
                   /\ pc'[c] = "idle"
                   /\ ~multi'[c]
                   /\ UNCHANGED <<dbVars, versionMap, lockVars, results>>]_vars

\* an EXEC was refused because of a recorded enqueue error
C7_Witness ==
    \E c \in Tasks :
        /\ pc[c] = "idle"
        /\ execEnd[c] = "errors"
        /\ reply[c] = Single(ExecAbortReply)
        /\ ~multi[c]

\* the step by which the EXEC of c, sent in InMulti, ends
ExecEnds(c) == multi[c] /\ (execMulti(c) \/ cur[c] = <<"exec">>) /\ pc'[c] = "idle"

\* C8: MULTI leaves the connection InMulti and is an error when it already
\* was; DISCARD leaves it Normal, is an error when it already was, and
\* otherwise clears the queue and the recorded errors; EXEC in Normal is an
\* error and stays Normal; an EXEC sent in InMulti ends in Normal however it
\* ends; nothing else changes the state.
C8_TxStateMachine ==
    [][\A c \in Tasks :
          /\ StartMulti(c)
                => /\ multi'[c]
                   /\ multi[c] => IsErrorReply(reply'[c].items[1])
                   /\ ~multi[c] => reply'[c] = Single(MakeOkReply)
          /\ DiscardMulti(c)
                => /\ ~multi'[c]
                   /\ ~multi[c] => IsErrorReply(reply'[c].items[1])
                   /\ multi[c] => queue'[c] = <<>> /\ txErrors'[c] = <<>>
          /\ (execMulti(c) /\ ~multi[c])
                => ~multi'[c] /\ IsErrorReply(reply'[c].items[1])
          /\ ExecEnds(c) => ~multi'[c]
          /\ multi'[c] # multi[c]
                => (StartMulti(c) \/ DiscardMulti(c) \/ ExecEnds(c))]_vars

\* an EXEC whose queued command panicked left the connection in Normal
C8_Witness ==
    \E c \in Tasks : pc[c] = "idle" /\ execEnd[c] = "panic" /\ ~multi[c]

\* C9: a WATCH sent in InMulti is answered with an error and leaves the
\* watch map of the connection as it was.
C9_WatchRejectedInMulti ==
    [][\A c \in Tasks : \A cmdLine \in Menu(c) :
          (Watch(c, cmdLine) /\ multi[c])
              => /\ IsErrorReply(reply'[c].items[1])
                 /\ watching'[c] = watching[c]]_vars

-----------------------------------------------------------------------------
(* Claim about the rewrite of the append-only file, checked under AofSpec *)

Logged == aofFile \o aofChan

\* C12: the log holds the successful write commands in the order in which
\* they took effect in memory. Every command of FlushSpec touches key a or
\* flushes its database, so any two of them share a key: whenever no FLUSHDB
\* is half-way, the logged command lines are the command lines in their
\* order of taking effect.
C12_LogOrderIsEffectOrder == flushPc = "idle" => Logged = effects

\* the task running listenCmd has a step it can take
ListenerCanStep ==
    \/ listener.pc = "range" /\ (aofChan # <<>> \/ ChanClosed)
    \/ listener.pc = "lock" /\ pausingAof = "none"
    \/ listener.pc = "write"
    \/ listener.pc = "send" /\ closePc = "waiting"

\* C13: Close terminates and loses nothing. While Close waits for the signal
\* on aofFinished the task running listenCmd can always take its next step
\* (so, every step of it consuming a payload or ending the range, the signal
\* is sent), and when Close is done every payload handed to the persister is
\* in the file.
C13_CloseDrainsQueue ==
    /\ closePc = "waiting" => ListenerCanStep
    /\ closePc = "done" => (aofFile = effects /\ aofChan = <<>>)

\* C15: Rewrite holds the mutex only inside StartRewrite and FinishRewrite.
\* During DoRewrite (the temp file is being generated) the mutex is not held
\* by Rewrite, so a listener that waits for the mutex in writeAof can take
\* it: the only holder during that phase is the listener itself.
C15_MutexFreeDuringDoRewrite ==
    Rewriting =>
        /\ pausingAof # "rewrite"
        /\ listener.pc = "lock" => pausingAof = "none"

\* a payload is written to the live file while generateAof is dumping the keys
C15_Witness ==
    /\ rewritePc = "generating"
    /\ cursor > 0
    /\ listener.pc = "range"
    /\ Len(aofFile) > ctx.fileSize

\* s is an initial part of t
IsPrefix(s, t) == Len(s) <= Len(t) /\ SubSeq(t, 1, Len(s)) = s

\* C14: once a step of Rewrite has failed, the rewrite leaves the live file
\* as it is and the persister keeps appending to it: the file holds the
\* command lines listenCmd wrote, in their order, and nothing else.
C14_FailedRewriteKeepsLog == rewriteErr # "none" => IsPrefix(aofFile, effects)

\* C16: the version of a key never decreases, whatever the connections do
\* and however their commands interleave: no step takes versions[k] below
\* the value it had.
C16_VersionsNeverDecrease ==
    [][\A k \in DOMAIN versionMap :
          k \in DOMAIN versionMap' /\ versionMap'[k] >= versionMap[k]]_vars

\* C17: in every reachable state of a database every key of the ttl map is
\* a key of the data map.
C17_TtlKeysAreDataKeys == DOMAIN ttlMap \subseteq DOMAIN data

\* C18: a call of GetEntity on a stored key whose expiry instant has passed
\* reports the key absent and leaves it in neither the data map nor the ttl
\* map, whether or not the time-wheel task has fired; a call on a key whose
\* expiry instant has not passed, or that has none, leaves both maps as they
\* were and returns the stored entity.
C18_LazyEviction ==
    [][\A key \in DOMAIN data :
          GetEntityCall(key) =>
              IF key \in DOMAIN ttlMap /\ clock > ttlMap[key]
              THEN /\ ~got'.ok
                   /\ got'.entity = <<>>
                   /\ key \notin DOMAIN data'
                   /\ key \notin DOMAIN ttlMap'
              ELSE /\ got'.ok
                   /\ got'.entity = <<data[key]>>
                   /\ data' = data
                   /\ ttlMap' = ttlMap]_vars

\* GetEntity has just evicted a key whose time-wheel task had not fired,
\* while the other key, not expired, is still stored
C18_Witness ==
    /\ got.expired
    /\ ~got.ok
    /\ got.key \notin DOMAIN data
    /\ got.key \notin DOMAIN ttlMap
    /\ \E other \in DOMAIN ttlMap : clock <= ttlMap[other]

\* C19: in every reachable state of a ConcurrentDict, whatever calls the
\* tasks make under the locks of the database, Len() is the number of keys
\* stored in the shards.
C19_LenIsKeyCount == dict.count = Cardinality(DOMAIN dict.m)

\* the nodes of level i in forward order, from node x on
RECURSIVE ChainFrom(_, _, _)
ChainFrom(s, x, i) ==
    IF s.node[x].forward[i] = Nil THEN <<>>
    ELSE <<s.node[x].forward[i]>> \o ChainFrom(s, s.node[x].forward[i], i)

Chain(i) == ChainFrom(sl, Header, i)

ElementOf(x) == <<sl.node[x].score, sl.node[x].member>>

\* the level-0 chain holds exactly the stored elements, in non-decreasing
\* (score, member) order
ChainIsSortedStore ==
    LET c == Chain(1)
    IN  /\ {ElementOf(c[k]) : k \in 1..Len(c)} = slHist.stored
        /\ Len(c) = Cardinality(slHist.stored)
        /\ \A k \in 1..(Len(c) - 1) :
              ~Before(sl.node[c[k + 1]], sl.node[c[k]].score, sl.node[c[k]].member)

\* backward pointers and tail mirror the level-0 chain; length counts it
BackwardMirrorsChain ==
    LET c == Chain(1)
    IN  /\ sl.tail = IF c = <<>> THEN Nil ELSE c[Len(c)]
        /\ \A k \in 1..Len(c) : sl.node[c[k]].backward = IF k = 1 THEN Nil ELSE c[k - 1]
        /\ sl.length = Len(c)

\* every level's chain is a sub-sequence of level 0 whose spans add up to
\* the 1-based ranks
SpansAreRanks ==
    LET c == Chain(1)
    IN  \A i \in 1..sl.level :
           LET ci == Chain(i)
               RankOf(k) == CHOOSE p \in 0..Len(c) :
                               IF k = 0 THEN p = 0 ELSE p > 0 /\ c[p] = ci[k]
           IN  \A k \in 1..Len(ci) :
                  /\ \E p \in 1..Len(c) : c[p] = ci[k]
                  /\ RankOf(k) = RankOf(k - 1)
                                    + sl.node[IF k = 1 THEN Header ELSE ci[k - 1]].span[i]

\* C20: after any sequence of insert and remove calls, whatever height
\* randomLevel draws for each inserted node, the level-0 chain holds exactly
\* the stored elements in order, backward pointers, tail and length mirror
\* it, and on every level the spans from the header add up to the ranks.
C20_SkiplistWellFormed ==
    /\ ChainIsSortedStore
    /\ BackwardMirrorsChain
    /\ SpansAreRanks

\* the nodes of the level-0 chain that carry the member
NodesOf(member) == {k \in 1..Len(Chain(1)) : sl.node[Chain(1)[k]].member = member}

\* C21: after any sequence of Add, Remove and ZINCRBY calls on a sorted set,
\* a member is in the member map exactly when one skiplist node carries it,
\* that node has the score of the map entry, and the map size is the
\* skiplist length.
C21_MapMatchesSkiplist ==
    /\ \A member \in Members :
          member \in DOMAIN sset.dict <=> Cardinality(NodesOf(member)) = 1
    /\ \A member \in DOMAIN sset.dict :
          \A k \in NodesOf(member) : sl.node[Chain(1)[k]].score = sset.dict[member]
    /\ Cardinality(DOMAIN sset.dict) = sl.length

\* the command names EntityToCmd reconstructs the entities of the model with
ReconstructNames == {"HMSET", "ZADD"}

\* C22: for every hash and sorted set stored under a key, the command made
\* by EntityToCmd starts with the reconstruct command name and the key, and
\* executing it on a database where the key is absent recreates under the
\* key an entity equal to the original.
C22_EntityRoundTrip ==
    remade.key # "" =>
        /\ remade.cmd[1] \in ReconstructNames
        /\ remade.cmd[2] = remade.key
        /\ remade.key \in DOMAIN remade.db.data
        /\ remade.db.data[remade.key] = remade.entity

\* C23: loading a log file executes every command of the file with all of
\* its arguments in file order, so the loaded database equals the database
\* of the server that executed the same commands when they were sent.
C23_LoadReplaysFile == loaded.done => (~loaded.panic /\ loaded.db = loaded.live)

\* the lines of the file that are no SELECT
LogLines == {i \in 1..Len(aofFile) : ToLower(aofFile[i][1]) # "select"}

C25_ScanCovers ==
    /\ scan.calls <= ShardCount
    /\ (scan.calls > 0 /\ scan.cursor # 0) => scan.cursor > scan.passed
    /\ (scan.calls > 0 /\ scan.cursor = 0) =>
          /\ SeqToSet(scan.out) = TableKeys(scan.table)
          /\ Len(scan.out) = Cardinality(TableKeys(scan.table))

\* an iteration of three calls over three keys has ended
C25_Witness ==
    /\ scan.calls = ShardCount
    /\ scan.cursor = 0
    /\ Len(scan.out) = 3

\* the task holds no side of any shard lock
HoldsNoLock(c) == \A s \in UsedShards : wOwner[s] # c /\ rHeld[s][c] = 0

\* the executor the connection is about to run panics
PanicsNow(c) ==
    \/ /\ pc[c] = "run"
       /\ executor(cmdTable[ToLower(cur[c][1])], DbOf, Tail(cur[c])).panic
    \/ /\ pc[c] = "txrun"
       /\ Len(results[c]) < Len(queue[c])
       /\ execWithLock(DbOf, NextQueued(c)).panic
    \/ /\ pc[c] = "txundo"
       /\ rollback[c] # <<>>
       /\ execWithLock(DbOf, Head(rollback[c])).panic

\* C26: when a command executor panics, the call returns to the client with
\* the unknown-error reply, the connection holds none of the shard locks it
\* took for the command, and it is idle for its next command.
C26_PanicIsAnswered ==
    [][\A c \in Tasks :
          (PanicsNow(c) /\ pc'[c] # pc[c]) =>
              /\ reply'[c] = Single(UnknownErrReply)
              /\ pc'[c] = "idle"
              /\ HoldsNoLock(c)']_vars

\* after a panic of HGET b f the same connection has taken the lock of b
\* again and is about to execute its next command on it
C26_Witness ==
    /\ reply["t1"] = Single(UnknownErrReply)
    /\ pc["t1"] = "run"
    /\ cur["t1"] = <<"hget", "b", "f">>
    /\ ~HoldsNoLock("t1")

\* C27: with requirepass set, a command other than AUTH sent on a
\* connection that is not authenticated is answered with the authentication
\* error and changes no database; AUTH with a wrong password is answered
\* with the invalid-password error and leaves the connection
\* unauthenticated.
C27_AuthGuardsCommands ==
    [][\A c \in Tasks :
          (conns'.n # conns.n /\ conns'.c = c) =>
              /\ (ToLower(conns'.cmdLine[1]) # "auth" /\ ~isAuthenticated(c)) =>
                    (conns'.reply = AuthRequiredReply /\ UNCHANGED dbVars)
              /\ conns'.cmdLine = <<"auth", "bad">> =>
                    (conns'.reply = MakeErrReply("ERR invalid password")
                        /\ ~isAuthenticated(c)')]_vars

\* C28: once the parser has reported a protocol error on a connection, the
\* handler has closed the connection and executes no further command
\* received on it.
C28_ProtocolErrorCloses ==
    client.errs > 0 => (~client.open /\ client.afterErr = 0)

-----------------------------------------------------------------------------
(* The publish / subscribe hub: pubhub/pubhub.go, datastruct/lock/lock_map.go *)

\* calls of the hub the connections make together
MaxHubCalls == 3

\* locks.spread(fnv32(channel)) on the channels of the model
stripeOf(channel) == IF channel = "c1" THEN 1 ELSE 2

\* Locks.toLockIndices(keys, reverse): indexMap collects the stripes of the
\* keys; indices is made with length 0, nothing is appended to it, and it is
\* sorted and returned
Locks_toLockIndices(keys, reverse) ==
    LET indexMap == {stripeOf(keys[i]) : i \in 1..Len(keys)}
        indices == SubSeq(SortAsc(indexMap), 1, 0)
    IN  IF reverse THEN Reverse(indices) ELSE indices

\* the calls a connection makes: PUBLISH, SUBSCRIBE and UNSUBSCRIBE with
\* their arguments, and the cleanup after the connection closed
HubMenu ==
    {[name |-> "Publish", args |-> <<c>>] : c \in Channels}
    \cup {[name |-> "Subscribe", args |-> a] : a \in {<<"c1">>, <<"c2">>, <<"c1", "c2">>}}
    \cup {[name |-> "UnSubscribe", args |-> a] : a \in {<<>>, <<"c1">>, <<"c2">>}}
    \cup {[name |-> "UnsubscribeAll", args |-> <<>>]}

\* everything but the hub
hubFrame ==
    <<dbVars, versionMap, clientVars, aofFile, aofChan, rewriteVars, written, windowWrites,
      effects, flushPc, taskVars, rewriteErr, evictVars, dictVars, skipVars, zsetVars,
      marshalVars, loadVars, scanVars, authVars, handleVars, rangeVars, tailVars>>

\* hub.subs.Get(topic)
SubsGet(subs, topic) ==
    IF topic \in DOMAIN subs THEN [ok |-> TRUE, list |-> subs[topic]] ELSE NoList

\* the topics a call serves: the channels of the arguments; c.GetChannels()
\* for UNSUBSCRIBE without arguments and for UnsubscribeAll
TopicsOf(t, call) ==
    IF call.name = "UnsubscribeAll" \/ (call.name = "UnSubscribe" /\ call.args = <<>>)
    THEN SetToSeq(hub.chans[t])
    ELSE call.args

\* the mutexes a call locks before it touches a list: Publish calls
\* Lock(channel), Subscribe and UnsubscribeAll call Locks(topics...),
\* UnSubscribe calls neither
WantOf(call, topics) ==
    CASE call.name = "Publish" -> <<stripeOf(topics[1])>>
      [] call.name \in {"Subscribe", "UnsubscribeAll"} -> Locks_toLockIndices(topics, FALSE)
      [] OTHER -> <<>>

\* a connection enters Publish, Subscribe, UnSubscribe or UnsubscribeAll
HubCall(t, call) ==
    /\ hub.op[t].phase = "idle"
    /\ hub.n < MaxHubCalls
    /\ LET topics == TopicsOf(t, call)
       IN  hub' = [hub EXCEPT !.n = @ + 1,
                              !.op[t] = IF call.name = "UnSubscribe" /\ topics = <<>>
                                        THEN NoOp
                                        ELSE [NoOp EXCEPT !.name = call.name,
                                                          !.topics = topics,
                                                          !.want = WantOf(call, topics),
                                                          !.phase = "lock"]]
    /\ UNCHANGED hubFrame

\* mu.Lock() on the next mutex of the call; with none left the call goes on
HubLock(t) ==
    /\ hub.op[t].phase = "lock"
    /\ IF hub.op[t].want = <<>>
       THEN hub' = [hub EXCEPT !.op[t].phase = "run"]
       ELSE /\ hub.table[Head(hub.op[t].want)] = NoTask
            /\ hub' = [hub EXCEPT !.table[Head(hub.op[t].want)] = t,
                                   !.op[t].want = Tail(@),
                                   !.op[t].locked = @ \cup {Head(hub.op[t].want)}]
    /\ UNCHANGED hubFrame

\* whether the call changes a list it found as found: subscribe0 adds a
\* connection the list does not hold, unSubScribe0 removes one it holds
Modifies(t, name, found) ==
    CASE name = "Publish" -> FALSE
      [] name = "Subscribe" -> t \notin SeqToSet(found.list)
      [] OTHER -> t \in SeqToSet(found.list)

\* the call reaches the list of its next topic: Publish before ForEach,
\* subscribe0 and unSubScribe0 after client.Subscribe / client.UnSubscribe
\* and hub.subs.Get. Publish and unSubScribe0 return at once when there is
\* no list.
HubEnter(t) ==
    /\ hub.op[t].phase = "run"
    /\ hub.op[t].topics # <<>>
    /\ LET topic == Head(hub.op[t].topics)
           name == hub.op[t].name
           found == SubsGet(hub.subs, topic)
           chans == CASE name = "Publish" -> hub.chans[t]
                      [] name = "Subscribe" -> hub.chans[t] \cup {topic}
                      [] OTHER -> hub.chans[t] \ {topic}
       IN  hub' = IF name # "Subscribe" /\ ~found.ok
                  THEN [hub EXCEPT !.chans[t] = chans, !.op[t].topics = Tail(@)]
                  ELSE [hub EXCEPT !.chans[t] = chans, !.op[t].phase = "in",
                                   !.op[t].seen = found]
    /\ UNCHANGED hubFrame

\* the list a call leaves when it found it as base: subscribe0 appends the
\* connection unless the list holds it, unSubScribe0 removes it and drops
\* an empty list from hub.subs, Publish leaves it alone
ListAfter(t, name, base) ==
    CASE name = "Publish" -> base
      [] name = "Subscribe" ->
            [ok |-> TRUE,
             list |-> IF t \in SeqToSet(base.list) THEN base.list ELSE Append(base.list, t)]
      [] OTHER ->
            LET rest == SelectSeq(base.list, LAMBDA x : x # t)
            IN  IF base.ok /\ rest # <<>> THEN [ok |-> TRUE, list |-> rest] ELSE NoList

\* the call leaves the list. The list is a linked list without a lock of
\* its own: when another call changed it in the meantime, the call has
\* worked on the list as it found it or on the list as it is now.
HubLeave(t) ==
    /\ hub.op[t].phase = "in"
    /\ LET topic == Head(hub.op[t].topics)
           name == hub.op[t].name
       IN  \E base \in {hub.op[t].seen, SubsGet(hub.subs, topic)} :
              LET after == IF name = "Publish" THEN SubsGet(hub.subs, topic)
                           ELSE ListAfter(t, name, base)
              IN  hub' = [hub EXCEPT !.subs = IF after.ok THEN MapPut(hub.subs, topic, after.list)
                                              ELSE MapRemove(hub.subs, topic),
                                     !.op[t].topics = Tail(@),
                                     !.op[t].phase = "run",
                                     !.op[t].seen = NoList]
    /\ UNCHANGED hubFrame

\* the call returns: the deferred UnLock / UnLocks frees the mutexes it holds
HubReturn(t) ==
    /\ hub.op[t].phase = "run"
    /\ hub.op[t].topics = <<>>
    /\ hub' = [hub EXCEPT !.table = [i \in Stripes |->
                                        IF i \in hub.op[t].locked THEN NoTask ELSE hub.table[i]],
                          !.op[t] = NoOp]
    /\ UNCHANGED hubFrame

HubNext ==
    \/ \E t \in Tasks : \E call \in HubMenu : HubCall(t, call)
    \/ \E t \in Tasks : HubLock(t)
    \/ \E t \in Tasks : HubEnter(t)
    \/ \E t \in Tasks : HubLeave(t)
    \/ \E t \in Tasks : HubReturn(t)

HubSpec == Init /\ [][HubNext]_vars

-----------------------------------------------------------------------------
(* A server with several databases and its persister: the connections select
   a database and write, SaveCmdLine hands each command line with the index
   of its database to writeAof (at once under appendfsync always, through
   aofChan otherwise), Rewrite runs beside them, and the server is stopped
   and started again on the file it wrote: aof/rdb.go, aof/rewrite.go,
   database/tx_utils.go, database/persistence.go *)

\* write commands the connections send, starts of the server, and calls of
\* Rewrite
MaxLogWrites == 3
MaxStarts == 2
MaxRewrites == 2

FsyncPolicies == {"always", "everysec", "no"}

LogMenu == {<<"hset", "a", "f", "1">>, <<"del", "a">>}

\* everything but mlog
selectFrame == <<dbVars, versionMap, clientVars, aofFile, aofChan, rewriteVars, written,
                 windowWrites, effects, flushPc, taskVars, rewriteErr, evictVars, dictVars,
                 skipVars, zsetVars, marshalVars, loadVars, scanVars, authVars, handleVars,
                 rangeVars, hubVars, lastVars, wheelVars>>

\* a payload, and an entry of the file: the command line with the index of
\* the database it was executed on
Entry(line, d) == [line |-> line, on |-> d]

SelectEntry(d) == Entry(SelectCmd(d), d)

\* a writeAof that never writes a SELECT
writeAofBare(lg, p) == [lg EXCEPT !.file = Append(@, p)]

\* writeAof(p) under pausingAof: SELECT p.dbIndex goes first when
\* persister.currentDB differs, then the command line
writeAofPayload(lg, p) ==
    IF lg.currentDB # p.on
    THEN [lg EXCEPT !.file = (@ \o <<SelectEntry(p.on)>>) \o <<p>>, !.currentDB = p.on]
    ELSE [lg EXCEPT !.file = Append(@, p)]

\* SaveCmdLine(db, cmdLine) for each line the executor gave to db.addAof
RECURSIVE SaveCmdLines(_, _)
SaveCmdLines(lg, ps) ==
    IF ps = <<>> THEN lg
    ELSE SaveCmdLines(IF lg.fsync = "always" THEN writeAofPayload(lg, Head(ps))
                      ELSE [lg EXCEPT !.chan = Append(@, Head(ps))],
                      Tail(ps))

\* the loop of LoadAof on payloads that carry the command lines of the
\* file: SELECT moves the connection of the loader and persister.currentDB,
\* every other line is executed on the selected database
RECURSIVE LoadEntries(_, _)
LoadEntries(st, entries) ==
    IF entries = <<>> THEN st
    ELSE LET line == Head(entries).line
         IN  LoadEntries(IF ToLower(line[1]) = "select"
                         THEN [st EXCEPT !.sel = ParseInt(line[2]),
                                         !.currentDB = ParseInt(line[2])]
                         ELSE [st EXCEPT !.live[st.sel] = execWithLock(@, line).db],
                         Tail(entries))

\* NewStandaloneServer: empty databases, NewPersister with currentDB 0 and
\* LoadAof on the file
MNewPersister(policy) ==
    /\ mlog.fsync = "down"
    /\ mlog.starts < MaxStarts
    /\ LET st == LoadEntries([live |-> [d \in DbIndices |-> NoSnap], sel |-> 0,
                              currentDB |-> 0], mlog.file)
       IN  mlog' = [mlog EXCEPT !.fsync = policy, !.live = st.live,
                                !.currentDB = st.currentDB, !.starts = @ + 1]
    /\ UNCHANGED selectFrame

\* the server stops: what is in memory, in aofChan and in temp files is gone
MStop ==
    /\ mlog.fsync # "down"
    /\ mlog' = [NoServer EXCEPT !.file = mlog.file, !.writes = mlog.writes,
                                !.starts = mlog.starts, !.rewrites = mlog.rewrites]
    /\ UNCHANGED selectFrame

\* execSelect: c.SelectDB(dbIndex)
MSelect(c, d) ==
    /\ mlog.fsync # "down"
    /\ mlog.conn[c] # d
    /\ mlog' = [mlog EXCEPT !.conn[c] = d]
    /\ UNCHANGED selectFrame

\* a connection executes a write command on the database it selected
MWrite(c, cmdLine) ==
    /\ mlog.fsync # "down"
    /\ mlog.writes < MaxLogWrites
    /\ LET d == mlog.conn[c]
           out == execWithLock(mlog.live[d], cmdLine)
           ps == [i \in 1..Len(out.aof) |-> Entry(out.aof[i], d)]
       IN  mlog' = SaveCmdLines([mlog EXCEPT !.live[d] = out.db, !.writes = @ + 1], ps)
    /\ UNCHANGED selectFrame

\* listenCmd takes a payload from aofChan and calls writeAof
MListen ==
    /\ mlog.fsync # "down"
    /\ mlog.chan # <<>>
    /\ mlog' = writeAofPayload([mlog EXCEPT !.chan = Tail(@)], Head(mlog.chan))
    /\ UNCHANGED selectFrame

\* StartRewrite under pausingAof: the size of the file and currentDB are
\* recorded, a temp file is created
MStartRewrite(r) ==
    /\ mlog.fsync # "down"
    /\ mlog.rewrites < MaxRewrites
    /\ mlog.rw[r].phase = "idle"
    /\ mlog' = [mlog EXCEPT !.rw[r] = [phase |-> "generating", fileSize |-> Len(mlog.file),
                                       dbIdx |-> mlog.currentDB, tmpFile |-> <<>>, i |-> 0],
                            !.rewrites = @ + 1]
    /\ UNCHANGED selectFrame

RECURSIVE Flatten(_)
Flatten(qs) == IF qs = <<>> THEN <<>> ELSE Head(qs) \o Flatten(Tail(qs))

\* what generateAof writes for database i: SELECT i and the commands of
\* every key of the database
DumpDb(db, i) ==
    LET lines == <<SelectCmd(i)>> \o Flatten([k \in 1..Len(ForEachOrder) |->
                                                DumpKey(db, ForEachOrder[k])])
    IN  [k \in 1..Len(lines) |-> Entry(lines[k], i)]

\* one round of the loop of generateAof over the databases
MGenerate(r) ==
    /\ mlog.rw[r].phase = "generating"
    /\ LET i == mlog.rw[r].i
       IN  mlog' = [mlog EXCEPT !.rw[r].tmpFile = @ \o DumpDb(mlog.live[i], i),
                                !.rw[r].i = i + 1,
                                !.rw[r].phase = IF i + 1 = Databases THEN "generated"
                                                ELSE "generating"]
    /\ UNCHANGED selectFrame

\* FinishRewrite under pausingAof: SELECT ctx.dbIdx and the file from
\* ctx.fileSize on go to the temp file, the temp file replaces the file,
\* SELECT currentDB is appended
MFinishRewrite(r) ==
    /\ mlog.rw[r].phase = "generated"
    /\ LET tail == SubSeq(mlog.file, mlog.rw[r].fileSize + 1, Len(mlog.file))
           tmpFile == (mlog.rw[r].tmpFile \o <<SelectEntry(mlog.rw[r].dbIdx)>>) \o tail
       IN  mlog' = [mlog EXCEPT !.file = Append(tmpFile, SelectEntry(mlog.currentDB)),
                                !.rw[r] = [NoRewrite EXCEPT !.phase = "finished"]]
    /\ UNCHANGED selectFrame

\* one Rewrite at a time
SelectNext ==
    \/ \E policy \in FsyncPolicies : MNewPersister(policy)
    \/ MStop
    \/ \E c \in Tasks : \E d \in DbIndices : MSelect(c, d)
    \/ \E c \in Tasks : \E cmdLine \in LogMenu : MWrite(c, cmdLine)
    \/ MListen
    \/ \E r \in {"r1"} : MStartRewrite(r)
    \/ \E r \in {"r1"} : MGenerate(r)
    \/ \E r \in {"r1"} : MFinishRewrite(r)

SelectSpec == Init /\ [][SelectNext]_vars

-----------------------------------------------------------------------------
(* Claims about the range commands of a sorted set *)

\* the members of a range reply: an empty array carries none
RangeItems(r) == IF r = EmptyMultiBulkReply THEN <<>> ELSE Tail(r)

\* the members ZRANGE key start stop is to return on the sorted set zset:
\* negative indices count from the end, both ends are clamped into the set
RanksOf(zset, start, stop, withScores, desc) ==
    LET n == Cardinality(DOMAIN zset.dict)
        order == IF desc THEN ByRankDesc(zset.skiplist)
                 ELSE Reverse(ByRankDesc(zset.skiplist))
        lo0 == IF start < 0 THEN start + n ELSE start
        hi0 == IF stop < 0 THEN stop + n ELSE stop
        lo == IF lo0 < 0 THEN 0 ELSE lo0
        hi == IF hi0 > n - 1 THEN n - 1 ELSE hi0
    IN  IF start >= n \/ lo > hi THEN <<>>
        ELSE RangeResult(SubSeq(order, lo + 1, hi + 1), withScores)

\* C29: ZRANGE key start stop [WITHSCORES] on a sorted set of size n answers
\* with the members whose ranks lie between start and stop (n added to a
\* negative index, both ends clamped into the set), by ascending score
\* (ZREVRANGE: descending), each followed by its score under WITHSCORES; the
\* array is empty when start is at or beyond n or the range is empty; the
\* reply is an error only when the argument count is neither 3 nor 4.
C29_RangeReturnsRanks ==
    ranged.cmdLine # <<>> =>
        LET args == Tail(ranged.cmdLine)
            zset == IF HasEntity(ranged.db, args[1]) THEN ranged.db.data[args[1]]
                    ELSE MakeSortedSet
        IN  IF Len(args) \in {3, 4}
            THEN /\ ranged.reply[1] \in {"multibulk", "emptymultibulk"}
                 /\ RangeItems(ranged.reply) =
                        RanksOf(zset, ParseInt(args[2]), ParseInt(args[3]), Len(args) = 4,
                                ranged.cmdLine[1] = "zrevrange")
            ELSE IsErrorReply(ranged.reply)

-----------------------------------------------------------------------------
(* Claims about the publish / subscribe hub *)

\* the connection is inside the subscriber list of the channel
InList(t, channel) ==
    /\ hub.op[t].phase = "in"
    /\ Head(hub.op[t].topics) = channel

\* the connection is inside the list and changes it
ModifiesList(t, channel) ==
    /\ InList(t, channel)
    /\ Modifies(t, hub.op[t].name, hub.op[t].seen)

\* C30: while a Subscribe, an Unsubscribe or the cleanup of a closed
\* connection modifies the subscriber list of a channel, no other connection
\* is inside that list, neither a Publish iterating it nor another call
\* modifying it.
C30_ListUnderStripeLock ==
    \A t \in Tasks : \A u \in Tasks \ {t} : \A c \in Channels :
        ~(ModifiesList(t, c) /\ InList(u, c))

-----------------------------------------------------------------------------
(* Claims about RWLocks and RWUnLocks, checked under LockSpec *)

\* the shards the keys reach
ShardsOf(keys) == {spread(keys[i]) : i \in 1..Len(keys)}

\* what a task holds of a shard: the write lock, and its number of read locks
Holding(t, s) == [w |-> wOwner[s] = t /\ wActive[s], r |-> rHeld[s][t]]

\* what the batch entitles its holder to on a shard
Granted(b, s) ==
    IF s \in ShardsOf(b.w) THEN [w |-> TRUE, r |-> 0]
    ELSE IF s \in ShardsOf(b.r) THEN [w |-> FALSE, r |-> 1]
    ELSE [w |-> FALSE, r |-> 0]

NothingHeld == [w |-> FALSE, r |-> 0]

\* the holdings of every task match the position of its call: nothing while
\* it is in no call, the whole batch once RWLocks returned, and while
\* RWLocks runs the shards of the batch below the next one of its plan
HoldingsMatch ==
    \A t \in Tasks : \A s \in UsedShards :
        CASE pc[t] = "idle" -> Holding(t, s) = NothingHeld /\ wOwner[s] # t
          [] pc[t] = "locked" -> Holding(t, s) = Granted(held[t], s)
          [] pc[t] = "locking" ->
                IF s < Head(plan[t]) THEN Holding(t, s) = Granted(held[t], s)
                ELSE Holding(t, s) = NothingHeld
          [] OTHER -> TRUE

\* a shard locked exclusively has one holder
ExclusiveAlone ==
    \A s \in UsedShards :
        wActive[s] => (wOwner[s] \in Tasks /\ \A t \in Tasks : rHeld[s][t] = 0)

IsStrictlyDescending(q) == \A i \in 1..(Len(q) - 1) : q[i] > q[i + 1]

\* RWUnLocks walks exactly the shards of the batch, highest first
ReleaseOrder ==
    \A b \in Batches :
        LET indices == toLockIndices(b.w \o b.r, TRUE)
        IN  /\ IsStrictlyDescending(indices)
            /\ SeqToSet(indices) = ShardsOf(b.w) \cup ShardsOf(b.r)

\* the task takes the writer side or a read lock of the shard in this step
Acquires(t, s) ==
    \/ wOwner'[s] = t /\ wOwner[s] # t
    \/ rHeld'[s][t] > rHeld[s][t]

\* the task gives up what it held of the shard in this step
Releases(t, s) ==
    \/ wOwner[s] = t /\ wOwner'[s] # t
    \/ rHeld'[s][t] < rHeld[s][t]

\* C31: RWLocks(writeKeys, readKeys) locks exactly the shards either list
\* reaches, each once, lowest index first, exclusively when a write key
\* reaches the shard (also when a read key reaches it too) and shared
\* otherwise; RWUnLocks with the same lists releases exactly those shards,
\* highest first and in the same mode, so that the pair leaves the task
\* holding nothing; a shard locked exclusively has no second holder.
C31_RWLocksTakesTheBatch ==
    /\ [](HoldingsMatch /\ ExclusiveAlone /\ ReleaseOrder)
    /\ [][\A t \in Tasks : \A s \in UsedShards :
            /\ Acquires(t, s) =>
                  /\ pc[t] = "locking"
                  /\ s \in ShardsOf(held[t].w) \cup ShardsOf(held[t].r)
                  /\ \A below \in UsedShards :
                        (wOwner[below] = t \/ rHeld[below][t] > 0) => below < s
            /\ Releases(t, s) =>
                  /\ pc[t] = "locked" /\ pc'[t] = "idle"
                  /\ \A other \in UsedShards : Holding(t, other)' = NothingHeld]_vars

\* a task holds a batch whose write key and read key reach the same shard,
\* after it locked and released another batch
C31_Witness ==
    \E t \in Tasks :
        /\ pc[t] = "locked"
        /\ sent[t] = MaxRounds
        /\ held[t].w # <<>> /\ held[t].r # <<>>
        /\ held[t].w[1] # held[t].r[1]
        /\ spread(held[t].w[1]) = spread(held[t].r[1])
        /\ wActive[spread(held[t].w[1])]

-----------------------------------------------------------------------------
(* Claims about the log of a server with several databases *)

\* every command line of the entries was executed on the database the
\* nearest SELECT before it names, sel being selected at the start
RECURSIVE DbsMatch(_, _)
DbsMatch(entries, sel) ==
    IF entries = <<>> THEN TRUE
    ELSE IF Head(entries).line[1] = "SELECT"
    THEN DbsMatch(Tail(entries), ParseInt(Head(entries).line[2]))
    ELSE Head(entries).on = sel /\ DbsMatch(Tail(entries), sel)

\* C32: at every moment every command line of the log file was executed on
\* the database named by the nearest SELECT before it (database 0 when
\* there is none): under each fsync policy, with connections on different
\* databases, after the server was started on the file, and after a rewrite.
C32_SelectNamesTheDb == DbsMatch(mlog.file, 0)

\* a server was started on a file that begins with the snapshot of a
\* rewrite, and the file holds commands of both databases
C32_Witness ==
    /\ mlog.starts = MaxStarts
    /\ mlog.fsync # "down"
    /\ mlog.file # <<>>
    /\ mlog.file[1].line = SelectCmd(0)
    /\ \E i \in 1..Len(mlog.file) : \E j \in 1..Len(mlog.file) :
          /\ i < j
          /\ mlog.file[i].line[1] = "hset" /\ mlog.file[i].on = 1
          /\ mlog.file[j].line[1] = "hset" /\ mlog.file[j].on = 0

-----------------------------------------------------------------------------
(* ExpireSpec: one connection sending commands that set, move and remove    *)
(* the TTL of a key, the time wheel, and the task DB.Expire hands to it:    *)
(* database/database.go.  Time passes between any two steps.                *)

MaxTtlCmds == 4

ExpireMenu ==
    {<<"hset", "a", "f", "1">>, <<"expire", "a", "1">>, <<"expire", "a", "2">>,
     <<"persist", "a">>, <<"del", "a">>, <<"expire", "b", "1">>,
     <<"hset", "b", "f", "1">>}

expireFrame ==
    <<versionMap, clientVars, aofFile, aofChan, rewriteVars, written, windowWrites, effects,
      flushPc, taskVars, rewriteErr, got, dictVars, skipVars, zsetVars, marshalVars,
      loadVars, scanVars, authVars, handleVars, rangeVars, hubVars, selectVars, lastVars>>

\* the database with every expiry instant read relative to now
Since(db, now) == [db EXCEPT !.ttl = [k \in DOMAIN db.ttl |-> db.ttl[k] - now]]

\* the executor of cmdLine run when time.Now() is now
execAt(db, cmdLine, now) ==
    LET out == execWithLock(Since(db, now), cmdLine)
    IN  [out EXCEPT !.db = Since(out.db, 0 - now)]

\* the time wheel after a command: timewheel.Cancel of db.Persist and
\* db.Remove, then timewheel.At(expireTime, taskKey, job) of db.Expire
Scheduled(sched, cmdLine, out) ==
    LET kept == [k \in DOMAIN sched \cap DOMAIN out.db.ttl |-> sched[k]]
    IN  IF ToLower(cmdLine[1]) = "expire" /\ out.reply = MakeIntReply(1)
        THEN MapPut(kept, cmdLine[2], out.db.ttl[cmdLine[2]])
        ELSE kept

\* the job of db.Expire that removes the key without reading ttlMap again
expireJobBlind(db, key, now) == Remove(db, key)

\* the job of db.Expire, once it holds the write lock of key
expireJob(db, key, now) ==
    IF key \notin DOMAIN db.ttl THEN db
    ELSE IF now > db.ttl[key] THEN Remove(db, key)
    ELSE db

WTick ==
    /\ clock < MaxClock
    /\ clock' = clock + 1
    /\ UNCHANGED <<dbVars, wheel, expireFrame>>

\* execNormalCommand: db.RWLocks(write, read) of a command on one key
WConnLock(cmdLine) ==
    /\ wheel.conn.phase = "idle"
    /\ wheel.n < MaxTtlCmds
    /\ wheel.owner[spread(cmdLine[2])] = NoTask
    /\ wheel' = [wheel EXCEPT !.owner[spread(cmdLine[2])] = "conn",
                              !.conn = [phase |-> "locked", cmdLine |-> cmdLine],
                              !.n = @ + 1]
    /\ UNCHANGED <<dbVars, clock, expireFrame>>

\* the executor and the deferred RWUnLocks; GetWithLock of Removes waits for
\* the writer of the shard to leave
WConnRun ==
    /\ wheel.conn.phase = "locked"
    /\ \A s \in GetWithLockShards(wheel.conn.cmdLine) : wheel.owner[s] = NoTask
    /\ LET cmdLine == wheel.conn.cmdLine
           out == execAt(DbOf, cmdLine, clock)
       IN  /\ data' = out.db.data
           /\ ttlMap' = out.db.ttl
           /\ wheel' = [wheel EXCEPT !.owner[spread(cmdLine[2])] = NoTask,
                                     !.conn = [phase |-> "idle", cmdLine |-> <<>>],
                                     !.sched = Scheduled(@, cmdLine, out)]
    /\ UNCHANGED <<clock, expireFrame>>

\* the time wheel starts the job of key at or after its instant
WFire(key) ==
    /\ wheel.task.phase = "idle"
    /\ key \in DOMAIN wheel.sched
    /\ clock >= wheel.sched[key]
    /\ wheel' = [wheel EXCEPT !.sched = MapRemove(@, key),
                              !.task = [phase |-> "waiting", key |-> key,
                                        at |-> wheel.sched[key]]]
    /\ UNCHANGED <<dbVars, clock, expireFrame>>

\* db.RWLocks(keys, nil) of the job
WTaskLock ==
    /\ wheel.task.phase = "waiting"
    /\ wheel.owner[spread(wheel.task.key)] = NoTask
    /\ wheel' = [wheel EXCEPT !.owner[spread(wheel.task.key)] = "task",
                              !.task.phase = "locked"]
    /\ UNCHANGED <<dbVars, clock, expireFrame>>

\* the rest of the job and its deferred RWUnLocks
WTaskRun ==
    /\ wheel.task.phase = "locked"
    /\ LET key == wheel.task.key
           after == expireJob(DbOf, key, clock)
       IN  /\ data' = after.data
           /\ ttlMap' = after.ttl
           /\ wheel' = [wheel EXCEPT !.owner[spread(key)] = NoTask,
                                     !.task = [phase |-> "idle", key |-> "", at |-> 0],
                                     !.sched = IF after # DbOf THEN MapRemove(@, key) ELSE @,
                                     !.lastRun = [n |-> wheel.lastRun.n + 1, key |-> key,
                                                  at |-> wheel.task.at, now |-> clock,
                                                  before |-> DbOf, after |-> after]]
    /\ UNCHANGED <<clock, expireFrame>>

ExpireNext ==
    \/ WTick
    \/ \E cmdLine \in ExpireMenu : WConnLock(cmdLine)
    \/ WConnRun
    \/ \E key \in DbKeys : WFire(key)
    \/ WTaskLock
    \/ WTaskRun

ExpireSpec == Init /\ [][ExpireNext]_vars

(* Claims about the expiration task *)

\* the job of key found an instant in ttlMap that had passed
FoundExpired(run) ==
    /\ run.key \in DOMAIN run.before.ttl
    /\ run.now > run.before.ttl[run.key]

\* C33: the expiration task of a key removes the key only if, when it holds
\* the key's write lock, ttlMap holds an instant for the key that has passed;
\* otherwise it leaves the key's value and TTL as they were
C33_TaskRemovesOnlyExpired ==
    wheel.lastRun.n > 0 =>
        LET run == wheel.lastRun
        IN  IF FoundExpired(run)
            THEN run.after = Remove(run.before, run.key)
            ELSE run.after = run.before

\* the TTL was moved to a later instant while the job waited for the lock,
\* and the job kept the key
C33_Witness ==
    /\ wheel.lastRun.n > 0
    /\ wheel.lastRun.key \in DOMAIN wheel.lastRun.before.data
    /\ wheel.lastRun.key \in DOMAIN wheel.lastRun.before.ttl
    /\ wheel.lastRun.before.ttl[wheel.lastRun.key] > wheel.lastRun.at
    /\ wheel.lastRun.now > wheel.lastRun.at
    /\ wheel.lastRun.after = wheel.lastRun.before

\* the TTL was removed while the job waited for the lock, and the job kept the key
C33_WitnessPersist ==
    /\ wheel.lastRun.n > 0
    /\ wheel.lastRun.key \in DOMAIN wheel.lastRun.before.data
    /\ wheel.lastRun.key \notin DOMAIN wheel.lastRun.before.ttl
    /\ wheel.lastRun.after = wheel.lastRun.before

-----------------------------------------------------------------------------
(* PopSpec: Add and PopMin on one SortedSet, whose dict is sortedSet.dict   *)
(* and whose skiplist is sl: datastruct/sortedset/sortedset.go, skiplist.go *)

\* border.less(element) of a ScoreBorder: the border lies below the element
less(border, n) ==
    IF border.Exclude THEN border.Value < n.score ELSE border.Value <= n.score

\* RemoveRange, the inner loop at level i from node x
RECURSIVE WalkTo(_, _, _, _)
WalkTo(s, x, i, min) ==
    LET f == s.node[x].forward[i]
    IN  IF f # Nil /\ ~less(min, s.node[f]) THEN WalkTo(s, f, i, min) ELSE x

\* RemoveRange, the outer loop from level i down: update is nil above
\* skiplist.level
RECURSIVE UpdateDown(_, _, _, _, _)
UpdateDown(s, i, x, update, min) ==
    IF i = 0 THEN update
    ELSE LET y == WalkTo(s, x, i, min)
         IN  UpdateDown(s, i - 1, y, [update EXCEPT ![i] = y], min)

\* RemoveRange, the loop over the nodes in range; max is the +inf border,
\* greater than every element
RECURSIVE RemoveLoop(_, _, _, _, _)
RemoveLoop(s, x, f, limit, removed) ==
    IF x = Nil THEN [sl |-> s, removed |-> removed, panic |-> FALSE]
    ELSE LET next == s.node[x].forward[1]
             taken == Append(removed, <<s.node[x].score, s.node[x].member>>)
             res == removeNode(s, x, f)
         IN  IF res.panic THEN [sl |-> res.sl, removed |-> taken, panic |-> TRUE]
             ELSE IF limit > 0 /\ Len(taken) = limit
             THEN [sl |-> res.sl, removed |-> taken, panic |-> FALSE]
             ELSE RemoveLoop(res.sl, next, f, limit, taken)

\* skiplist.RemoveRange(min, scorePositiveInfBorder, limit)
RemoveRange(s, min, limit) ==
    LET update == UpdateDown(s, s.level, Header, [i \in 1..maxLevel |-> Nil], min)
    IN  RemoveLoop(s, s.node[update[1]].forward[1], [update |-> update], limit, <<>>)

\* sortedSet.PopMin(count) on dict d and skiplist s; a panic of RemoveRange
\* leaves the dict as it was
PopMinOf(d, s, count) ==
    IF s.tail = Nil \/ s.node[Header].forward[1] = Nil
    THEN [dict |-> d, sl |-> s, removed |-> <<>>, panic |-> FALSE]
    ELSE LET first == s.node[s.node[Header].forward[1]]
             res == RemoveRange(s, [Value |-> first.score, Exclude |-> FALSE], count)
         IN  IF res.panic THEN [dict |-> d] @@ res
             ELSE [dict |-> [m \in DOMAIN d \ {res.removed[i][2] : i \in 1..Len(res.removed)}
                                |-> d[m]]] @@ res

\* the elements of the skiplist along the forward pointers of level 0
Elements(s) ==
    LET c == ChainFrom(s, Header, 1)
    IN  [i \in 1..Len(c) |-> <<s.node[c[i]].score, s.node[c[i]].member>>]

SortedSet_PopMin(count) ==
    /\ slHist.ops < MaxOps
    /\ LET res == PopMinOf(sset.dict, sl, count)
       IN  /\ sset' = [dict |-> res.dict]
           /\ sl' = res.sl
           /\ lastCmd' = [n |-> lastCmd.n + 1, cmdLine |-> <<"zpopmin", count>>,
                          reply |-> res.removed,
                          before |-> [dict |-> sset.dict, chain |-> Elements(sl),
                                      length |-> sl.length],
                          after |-> [dict |-> res.dict, chain |-> Elements(res.sl),
                                     length |-> res.sl.length],
                          aof |-> <<>>, panic |-> res.panic, log |-> lastCmd.log]
    /\ slHist' = [slHist EXCEPT !.ops = @ + 1]
    /\ UNCHANGED <<dbVars, versionMap, clientVars, aofFile, aofChan, rewriteVars, written,
                   windowWrites, effects, flushPc, taskVars, rewriteErr, evictVars,
                   dictVars, marshalVars, loadVars, scanVars, authVars, handleVars,
                   rangeVars, hubVars, selectVars, wheelVars>>

PopNext ==
    \/ \E member \in Members : \E score \in Scores : \E level \in randomLevel :
          SortedSet_Add(member, score, level)
    \/ \E count \in Counts : SortedSet_PopMin(count)

PopSpec == Init /\ [][PopNext]_vars

(* Claims about PopMin *)

\* the set before the call: skiplist.length counts the chain, every member
\* of the dict is an element of the chain with the dict's score, and the
\* chain ascends by (score, member)
Coherent(z) ==
    /\ Len(z.chain) = z.length
    /\ Len(z.chain) = Cardinality(DOMAIN z.dict)
    /\ \A i \in 1..Len(z.chain) :
          z.chain[i][2] \in DOMAIN z.dict /\ z.dict[z.chain[i][2]] = z.chain[i][1]
    /\ \A i \in 1..(Len(z.chain) - 1) :
          Before([score |-> z.chain[i][1], member |-> z.chain[i][2]],
                 z.chain[i + 1][1], z.chain[i + 1][2])

Smaller(a, b) == IF a < b THEN a ELSE b

\* C34: PopMin(N), N >= 0, on a coherent set returns its N smallest elements
\* in (score, member) order (all of them when it holds fewer), removes
\* exactly those from the skiplist and from the member map, and leaves the
\* other elements in place
C34_PopMinTakesSmallest ==
    (lastCmd.n > 0 /\ Coherent(lastCmd.before)) =>
        LET k == Smaller(lastCmd.cmdLine[2], Len(lastCmd.before.chain))
            popped == SubSeq(lastCmd.before.chain, 1, k)
        IN  /\ ~lastCmd.panic
            /\ lastCmd.reply = popped
            /\ lastCmd.after.chain =
                   SubSeq(lastCmd.before.chain, k + 1, Len(lastCmd.before.chain))
            /\ lastCmd.after.dict =
                   [m \in DOMAIN lastCmd.before.dict \ {popped[i][2] : i \in 1..k}
                       |-> lastCmd.before.dict[m]]

-----------------------------------------------------------------------------
(* CmdSpec: one connection whose key commands run one after the other       *)
(* through DB.Exec and execNormalCommand on a database with logging enabled *)

MaxSent == 4

CmdMenu ==
    {<<"hset", "a", "f", "1">>, <<"hset", "b", "f", "2">>, <<"expire", "a", "1">>,
     <<"expire", "b", "2">>, <<"rename", "a", "b">>, <<"rename", "b", "a">>,
     <<"rename", "a", "a">>, <<"hsetnx", "a", "f", "2">>, <<"hsetnx", "b", "g", "1">>,
     <<"hdel", "a", "f">>, <<"zadd", "z", "1", "m">>, <<"zincrby", "z", "0", "m">>,
     <<"zincrby", "z", "x", "m">>, <<"hsetnx", "z", "f", "1">>, <<"expire", "z", "x">>}

cmdFrame ==
    <<versionMap, clientVars, aofFile, aofChan, rewriteVars, written, windowWrites, effects,
      flushPc, taskVars, rewriteErr, evictVars, dictVars, skipVars, zsetVars, marshalVars,
      loadVars, scanVars, authVars, handleVars, rangeVars, hubVars, selectVars, wheelVars>>

\* execNormalCommand(cmdLine) from RWLocks to the deferred RWUnLocks; a
\* command whose executor waits for a lock its own connection holds never
\* returns
Send(cmdLine) ==
    /\ lastCmd.n < MaxSent
    /\ GetWithLockShards(cmdLine) = {}
    /\ LET out == execWithLock(DbOf, cmdLine)
       IN  /\ data' = out.db.data
           /\ ttlMap' = out.db.ttl
           /\ lastCmd' = [n |-> lastCmd.n + 1, cmdLine |-> cmdLine, reply |-> out.reply,
                          before |-> DbOf, after |-> out.db, aof |-> out.aof,
                          panic |-> out.panic, log |-> lastCmd.log \o out.aof]
    /\ UNCHANGED cmdFrame

CmdNext == \E cmdLine \in CmdMenu : Send(cmdLine)

CmdSpec == Init /\ [][CmdNext]_vars

(* Claims about RENAME *)

\* the last command was a RENAME that replied OK
Renamed == lastCmd.n > 0 /\ lastCmd.cmdLine[1] = "rename" /\ lastCmd.reply = MakeOkReply

\* C35: after a successful RENAME src dest (two different keys), src is
\* absent, dest holds src's former value, no ttl entry remains for src, and
\* dest's TTL is exactly src's former TTL: none when src had none, even when
\* dest had one before
C35_RenameMovesValueAndTtl ==
    (Renamed /\ lastCmd.cmdLine[2] # lastCmd.cmdLine[3]) =>
        LET src == lastCmd.cmdLine[2]
            dest == lastCmd.cmdLine[3]
        IN  /\ src \notin DOMAIN lastCmd.after.data
            /\ dest \in DOMAIN lastCmd.after.data
            /\ lastCmd.after.data[dest] = lastCmd.before.data[src]
            /\ src \notin DOMAIN lastCmd.after.ttl
            /\ IF src \in DOMAIN lastCmd.before.ttl
               THEN /\ dest \in DOMAIN lastCmd.after.ttl
                    /\ lastCmd.after.ttl[dest] = lastCmd.before.ttl[src]
               ELSE dest \notin DOMAIN lastCmd.after.ttl

(* Claims about access to the shard maps *)

\* task t holds the write lock of the shard of key
WriteLocked(t, key) == wOwner[spread(key)] = t /\ wActive[spread(key)]

\* the entry of key differs between the maps m and n
Differs(m, n, key) ==
    \/ (key \in DOMAIN m) # (key \in DOMAIN n)
    \/ key \in DOMAIN m /\ key \in DOMAIN n /\ m[key] # n[key]

\* a step that mutates the entry of a key in the data, ttl or version
\* dictionary is taken while some task holds the write lock of the key's shard
MutatesLocked ==
    \A key \in AllKeys :
        (\/ Differs(data, data', key)
         \/ Differs(ttlMap, ttlMap', key)
         \/ Differs(versionMap, versionMap', key))
            => \E t \in Tasks : WriteLocked(t, key)

\* C36: every bare mutation of a shard of the data, ttl or version
\* dictionary happens while the mutating task holds a lock that excludes
\* every other task from that shard map; in particular addVersion and the
\* source-key removal of RENAME never mutate under a shared lock or no lock
C36_MutationsHoldWriteLock == [][MutatesLocked]_vars

(* Claims about replaying the log *)

\* the database LoadAof builds from the log on an empty server
Replayed == LoadAof(NoSnap, lastCmd.log)

\* C37: with logging enabled and no rewrite, replaying the log into an empty
\* server yields the keys, values and TTLs of the in-memory state
C37_ReplayEqualsMemory == lastCmd.n > 0 => Replayed = DbOf

-----------------------------------------------------------------------------
(* OverlapSpec: the server of SelectSpec, never stopped, with one client    *)
(* connection and two Rewrite calls that may run at the same time           *)
(* (BGREWRITEAOF starts a goroutine per request; REWRITEAOF runs Rewrite on *)
(* the goroutine of its connection)                                         *)

OverlapMenu == {<<"zadd", "a", "1", "m">>, <<"zadd", "b", "2", "n">>}

\* StartRewrite under pausingAof; measured remembers the file whose size
\* goes to ctx.fileSize
OStartRewrite(r) ==
    /\ mlog.fsync # "down"
    /\ mlog.rewrites < MaxRewrites
    /\ mlog.rw[r].phase = "idle"
    /\ mlog' = [mlog EXCEPT !.rw[r] = [phase |-> "generating", fileSize |-> Len(mlog.file),
                                       dbIdx |-> mlog.currentDB, tmpFile |-> <<>>, i |-> 0,
                                       measured |-> mlog.file],
                            !.rewrites = @ + 1]
    /\ UNCHANGED selectFrame

OverlapNext ==
    \/ \E policy \in {"everysec"} : MNewPersister(policy)
    \/ \E c \in {"t1"} : \E d \in DbIndices : MSelect(c, d)
    \/ \E c \in {"t1"} : \E cmdLine \in OverlapMenu : MWrite(c, cmdLine)
    \/ MListen
    \/ \E r \in Rewriters : OStartRewrite(r)
    \/ \E r \in Rewriters : MGenerate(r)
    \/ \E r \in Rewriters : MFinishRewrite(r)

OverlapSpec == Init /\ [][OverlapNext]_vars

(* Claims about overlapping rewrites *)

\* the databases LoadAof builds from the file on an empty server
ReplayOfFile ==
    LoadEntries([live |-> [d \in DbIndices |-> NoSnap], sel |-> 0, currentDB |-> 0],
                mlog.file).live

\* no rewrite is under way and listenCmd has written every payload
Settled ==
    /\ mlog.fsync # "down"
    /\ mlog.chan = <<>>
    /\ \A r \in Rewriters : mlog.rw[r].phase \in {"idle", "finished"}

-----------------------------------------------------------------------------
(* MultiSpec: the two connections of Spec on a server without persister,    *)
(* with the commands Server.Exec serves itself before it reaches DB.Exec:   *)
(* database/tx_utils.go                                                     *)

\* a command Server.Exec answers at once arrives on an idle connection
\* while no other connection is inside a command
ServerReceive(c) ==
    /\ pc[c] = "idle"
    /\ sent[c] < Budget(c)
    /\ \A u \in Tasks \ {c} : pc[u] = "idle"
    /\ sent' = [sent EXCEPT ![c] = @ + 1]

\* server.FlushDB(i) for the database of the model: loadDB stores a new DB
\* made by makeBasicDB
StoreNewDB ==
    /\ data' = EmptyMap
    /\ ttlMap' = EmptyMap
    /\ versionMap' = EmptyMap

\* Server.Exec, cmdName == "flushall": server.flushAll()
ServerFlushAll(c) ==
    /\ ServerReceive(c)
    /\ StoreNewDB
    /\ Replied(c, Single(MakeOkReply))
    /\ UNCHANGED <<lockVars, connVars, pc, cur, lockCallVars, verVars, txVars, histVars,
                   aofVars>>

\* Server.Exec, cmdName == "flushdb": refused in MULTI state
ServerFlushDB(c) ==
    /\ ServerReceive(c)
    /\ IF multi[c]
       THEN /\ Replied(c, Single(MakeErrReply("ERR command 'FlushDB' cannot be used in MULTI")))
            /\ UNCHANGED <<dbVars, versionMap>>
       ELSE /\ StoreNewDB
            /\ Replied(c, Single(MakeOkReply))
    /\ UNCHANGED <<lockVars, connVars, pc, cur, lockCallVars, verVars, txVars, histVars,
                   aofVars>>

MultiNext ==
    \/ \E c \in Tasks : Conn(c)
    \/ \E c \in Tasks : ServerFlushAll(c)
    \/ \E c \in Tasks : ServerFlushDB(c)

MultiSpec == Init /\ [][MultiNext]_vars

(* Claims about commands sent in MULTI state *)

\* a command of connection c arrives while c is in MULTI state
ArrivesInMulti(c) == multi[c] /\ sent'[c] # sent[c]

\* C39: between a connection's MULTI and its EXEC or DISCARD, no command
\* sent by that connection changes the contents of a database when it
\* arrives: it is queued or rejected
C39_MultiQueuesOrRejects ==
    [][\A c \in Tasks : ArrivesInMulti(c) => UNCHANGED dbVars]_vars

(* Claims about commands that fail *)

\* the last command answered with an error reply
Failed == lastCmd.n > 0 /\ IsErrorReply(lastCmd.reply)

\* C40: a key-space command that returns an error reply leaves the data and
\* ttl maps of the database unchanged and appends nothing to the log
C40_FailedCommandChangesNothing ==
    Failed => lastCmd.after = lastCmd.before /\ lastCmd.aof = <<>>

====
